---- MODULE Spec2Model ----
(***************************************************************************)
(* Broker relay of mcp-server/broker.py: the pending-request registry,     *)
(* the delivery queue with its wake signal and lock, the HTTP handlers     *)
(* (handle_request, handle_poll, handle_response) and the fallback socket  *)
(* session (handle_socket_client, handle_socket_message), the liveness     *)
(* monitor (update_lr_connection_status) and the request statistics with   *)
(* the bounded history (broker_stats, load_history, save_history), the     *)
(* dashboard connections (websocket, broadcast_ws) and the two entry       *)
(* points (run_broker, start_broker.py).                                   *)
(*                                                                         *)
(* Every handler runs on its own thread.  A critical section that does no  *)
(* blocking call is one atomic action, guarded by its lock being free; the *)
(* socket session's queue section contains a blocking sendall, so the      *)
(* queue lock is a variable and that section is two actions; websocket()   *)
(* calls ws.send inside its stats_lock section, so stats_lock is a         *)
(* variable too.  A call of broadcast_ws is a sequence of steps of the     *)
(* calling thread, which goes on when the call has returned.               *)
(***************************************************************************)
EXTENDS Integers, Sequences, FiniteSets, TLC

\* ---------------------------------------------------------------- bounds
MaxRequests == 2        \* handle_request invocations (threads)
NumPollers == 2         \* concurrent handle_poll threads
NumSessions == 2        \* socket connections accepted by run_socket_server
MaxResolves == 2        \* responses posted to /response or sent on the socket
NumCheckers == 2        \* concurrent update_lr_connection_status callers
MaxTime == 6            \* seconds the clock advances
NumObservers == 2       \* dashboard connections accepted by websocket()
NumThreads == 3         \* threads followed through their lock operations

\* ------------------------------------------------- configuration (41-43, 74)
REQUEST_TIMEOUT == 30
LR_CONNECTION_TIMEOUT == 5
HistoryCapacity == 100  \* deque(maxlen=100)

\* ------------------------------------------------------------- constants
None == "None"
Free == <<"free", 0>>
Requests == 1..MaxRequests
Pollers == 1..NumPollers
Sessions == 1..NumSessions
Checkers == 1..NumCheckers
Observers == 1..NumObservers
Threads == 1..NumThreads

\* the connection accepted first by run_socket_server
FirstSession == {1}

\* the first producer
FirstRequest == {1}

\* the focused specifications that need one poller only
FirstPoller == {1}

\* JSON bodies posted by a producer: a non-empty object, an empty body
\* (falsy), or a non-empty value that is not an object (a list).
RequestBodies == {"dict", "empty", "list"}

\* Response payloads, i.e. the message once "_broker_uuid" is popped:
\* two distinguishable non-empty objects and the empty object {}.
EmptyObj == "{}"
Payloads == {"pong", "other", EmptyObj}

\* The "_broker_uuid" field of a response: absent, present but falsy (""),
\* a uuid the broker never issued, or an issued uuid.
Absent == -1
Falsy == -2
NeverIssued == 0

\* locals not assigned yet
NoUuid == 0
NoClient == 0
NoData == [present |-> FALSE, response |-> None, event |-> FALSE,
           started_at |-> 0]

\* lightroom_last_poll before any consumer activity (None)
NeverPolled == -1

\* no frame of the socket stream is being processed
NoFrame == [kind |-> "none", uuid |-> Absent, body |-> EmptyObj]

VARIABLES
    pending_requests,     \* broker.py:51   uuid -> [response, event]
    request_queue,        \* broker.py:55   deque of request_data (by uuid)
    request_queue_event,  \* broker.py:57   threading.Event
    request_queue_lock,   \* broker.py:56   Free or the thread holding it
    broker_stats,         \* broker.py:64   counters and liveness fields
    socket_client,        \* broker.py:644  authoritative session or None
    uuid4_count,          \* uuids generated so far by uuid.uuid4()
    now,                  \* clock read by datetime.now()
    req,                  \* per handle_request thread: locals and position
                          \* (request_data is its "_broker_uuid" field)
    poll,                 \* per handle_poll thread: locals and position
    sess,                 \* per handle_socket_client thread
    nresolve,             \* responses handled so far (both transports)
    last_response,        \* what the last handle_response call returned
    resolve_log,          \* accepted resolves <<uuid, payload>>, in order
    push_log,             \* uuids in the order request_queue.append ran
    pop_log,              \* uuids in the order popleft ran
    requeued,             \* uuids put back by request_queue.appendleft, in order
    handed,               \* <<uuid, consumer>>: hand-offs that reached a consumer
    lost,                 \* uuids popped whose hand-off reached nobody
    chk,                  \* per update_lr_connection_status caller
    events,               \* status_update messages given to broadcast_ws, in order
    connect_log,          \* sessions in the order line 654 assigned socket_client
    stats_lock,           \* broker.py:77   Free or the thread holding it
    ws_clients,           \* broker.py:60   registered observers, in order
    ws_state,             \* per observer connection: what ws.send does
    ws,                   \* per websocket() handler thread: position
    inbox,                \* per observer: the set of messages ws.send delivered
    bcast,                \* per calling thread: locals of broadcast_ws
    saver,                \* per save_history thread started by a submit
    history_file,         \* HISTORY_FILE on disk
    loader,               \* the thread running load_history: its locals
    boot,                 \* the entry point run and how far it got
    pending_requests_lock,  \* broker.py:52  Free or the thread holding it
    ws_clients_lock,      \* broker.py:61   Free or the thread holding it
    socket_client_lock,   \* broker.py:645  Free or the thread holding it
    thread                \* per thread: the handler it runs and the lock
                          \* operations it has still to perform

vars == <<pending_requests, request_queue, request_queue_event,
          request_queue_lock, broker_stats, socket_client, uuid4_count, now,
          req, poll, sess, nresolve, last_response, resolve_log, push_log,
          pop_log, requeued, handed, lost, chk, events, connect_log,
          stats_lock, ws_clients, ws_state, ws, inbox, bcast, saver,
          history_file, loader, boot, pending_requests_lock,
          ws_clients_lock, socket_client_lock, thread>>

registryVars == <<pending_requests>>
queueVars == <<request_queue, request_queue_event, request_queue_lock>>
queueLogs == <<push_log, pop_log, requeued, handed, lost>>
resolveLogs == <<nresolve, last_response, resolve_log>>
observerVars == <<stats_lock, ws_clients, ws_state, ws, inbox>>
saveVars == <<saver, history_file, loader>>
lockVars == <<pending_requests_lock, ws_clients_lock, socket_client_lock,
              thread>>
extraVars == <<observerVars, bcast, saveVars, boot, lockVars>>

\* ---------------------------------------------------------------- helpers
\* Python truthiness of a stored response (None and {} are falsy).
Truthy(p) == p \notin {None, EmptyObj}

\* (bug variant: the entry is not stored when the request is queued)
Register_Nothing(reg, uuid) == reg

\* pending_requests[uuid] = {...} (broker.py:250)
Register(reg, uuid) ==
    [u \in (DOMAIN reg) \cup {uuid} |->
        IF u = uuid THEN [response |-> None, event |-> FALSE, started_at |-> now]
        ELSE reg[u]]

\* pending_requests.pop(uuid, None): the registry without uuid
Purge(reg, uuid) == [u \in (DOMAIN reg) \ {uuid} |-> reg[u]]

\* pending_requests.pop(uuid, None): the value popped
Popped(reg, uuid) ==
    IF uuid \in DOMAIN reg
    THEN [present |-> TRUE, response |-> reg[uuid].response,
          event |-> reg[uuid].event, started_at |-> reg[uuid].started_at]
    ELSE NoData

\* (bug variant: the response is stored under the oldest pending entry)
StoreKey_Oldest(reg, uuid) == CHOOSE u \in DOMAIN reg : \A v \in DOMAIN reg : u <= v

\* the entry a response is stored under: pending_requests[request_uuid]
StoreKey(reg, uuid) == uuid

\* (bug variant: the response is stored and the event is not set)
StoreResponse_NoSet(reg, uuid, data) ==
    [reg EXCEPT ![uuid].response = data]

\* pending_requests[uuid]["response"] = data; ["event"].set()
StoreResponse(reg, uuid, data) ==
    [reg EXCEPT ![StoreKey(reg, uuid)].response = data,
                ![StoreKey(reg, uuid)].event = TRUE]

\* line 282: "not got_response or not pending_data or not pending_data.get('response')"
IsTimeout(got_response, pending_data) ==
    \/ ~got_response
    \/ ~pending_data.present
    \/ ~Truthy(pending_data.response)

\* what the handler returns once the wait is over: the 504 error body or the
\* stored response (lines 324 and 367)
Outcome(got_response, pending_data) ==
    IF IsTimeout(got_response, pending_data)
    THEN [kind |-> "timeout", code |-> 504, payload |-> None]
    ELSE [kind |-> "resolved", code |-> 200, payload |-> pending_data.response]

\* lines 324 and 367: the handler of r returns the outcome
Return(rq, r) ==
    [rq EXCEPT ![r].pc = "done",
               ![r].returned = Append(@, Outcome(rq[r].got_response,
                                                 rq[r].pending_data))]

\* ---------------------------------------------------- broadcast_ws (171)
\* the threads that call broadcast_ws: handle_request, handle_poll,
\* handle_socket_client, update_lr_connection_status and websocket
Callers ==
    ({"req"} \X Requests) \cup ({"poll"} \X Pollers) \cup
    ({"sess"} \X Sessions) \cup ({"chk"} \X Checkers) \cup
    ({"ws"} \X Observers)

NoMessage == [type |-> "none"]

\* the locals of a broadcast_ws call that is not running
NoBroadcast == [stage |-> "idle", message |-> NoMessage, snapshot |-> << >>,
                i |-> 0, dead |-> << >>, sent |-> {}]

\* lines 267-274: the request_start message
RequestStart(uuid) == [type |-> "request_start", uuid |-> uuid]

\* lines 309-321 and 354-365: the request_complete message
RequestComplete(uuid, success) ==
    [type |-> "request_complete", uuid |-> uuid, success |-> success]

\* lines 178-182: clients_snapshot = list(ws_clients) under ws_clients_lock;
\* the call returns at once when the snapshot is empty
BroadcastBegin(t, message) ==
    IF ws_clients = << >>
    THEN [bcast EXCEPT ![t] = NoBroadcast]
    ELSE [bcast EXCEPT ![t] = [stage |-> "send", message |-> message,
                               snapshot |-> ws_clients, i |-> 1,
                               dead |-> << >>, sent |-> {}]]

\* broadcast_ws returns to its caller: a handle_request thread that called
\* it with request_complete returns the outcome (lines 324 and 367), every
\* other caller goes on with its next statement
AfterBroadcast(t) ==
    IF t[1] = "req" /\ req[t[2]].pc = "complete" THEN Return(req, t[2]) ELSE req

\* the thread is inside broadcast_ws
Broadcasting(t) == bcast[t].stage # "idle"

\* (bug variant: a failed send unregisters every observer)
RemoveDead_All(clients, dead) == << >>

\* lines 191-194: "if ws in ws_clients: ws_clients.remove(ws)" for each dead
RemoveDead(clients, dead) ==
    SelectSeq(clients, LAMBDA o : \A j \in 1..Len(dead) : dead[j] # o)

\* lines 185-189: one turn of the loop, ws.send(msg_str) to the next
\* observer of the snapshot.  The send delivers, raises (the observer is
\* appended to dead_clients) or has not returned yet.
BroadcastSend(t) ==
    /\ bcast[t].stage = "send"
    /\ LET o == bcast[t].snapshot[bcast[t].i]
           ok == ws_state[o] = "open"
           dead == IF ok THEN bcast[t].dead ELSE Append(bcast[t].dead, o)
           last == bcast[t].i = Len(bcast[t].snapshot)
       IN  /\ ws_state[o] # "stuck"
           /\ inbox' = IF ok THEN [inbox EXCEPT ![o] = @ \cup {bcast[t].message}]
                       ELSE inbox
           /\ bcast' = [bcast EXCEPT ![t] =
                  IF last /\ dead = << >>
                  THEN NoBroadcast
                  ELSE [@ EXCEPT !.stage = IF last THEN "remove" ELSE "send",
                                 !.i = IF last THEN @ ELSE @ + 1,
                                 !.dead = dead,
                                 !.sent = IF ok THEN @ \cup {o} ELSE @]]
           /\ req' = IF last /\ dead = << >> THEN AfterBroadcast(t) ELSE req
    /\ UNCHANGED <<pending_requests, request_queue, request_queue_event,
                   request_queue_lock, broker_stats, socket_client,
                   uuid4_count, now, poll, sess, nresolve, last_response,
                   resolve_log, push_log, pop_log, requeued, handed, lost,
                   chk, events, connect_log, stats_lock, ws_clients, ws_state,
                   ws, saveVars, boot, lockVars>>

\* lines 191-194: the dead observers are unregistered under ws_clients_lock
BroadcastRemove(t) ==
    /\ bcast[t].stage = "remove"
    /\ ws_clients' = RemoveDead(ws_clients, bcast[t].dead)
    /\ bcast' = [bcast EXCEPT ![t] = NoBroadcast]
    /\ req' = AfterBroadcast(t)
    /\ UNCHANGED <<pending_requests, request_queue, request_queue_event,
                   request_queue_lock, broker_stats, socket_client,
                   uuid4_count, now, poll, sess, nresolve, last_response,
                   resolve_log, push_log, pop_log, requeued, handed, lost,
                   chk, events, connect_log, stats_lock, ws_state, ws, inbox,
                   saveVars, boot, lockVars>>

broadcast_ws(t) ==
    \/ BroadcastSend(t)
    \/ BroadcastRemove(t)

\* save_history is not running for this submit
NoSaver == [pc |-> "idle", snapshot |-> << >>, ok |-> TRUE]

\* load_history is not running and has not run
NoLoader == [pc |-> "idle", history_data |-> << >>, result |-> "none"]

\* HISTORY_FILE does not exist
NoFile == [state |-> "absent", requests |-> << >>]

\* run_broker has loaded the history and is serving (lines 1415-1434)
Serving == [entry |-> "run_broker", pc |-> "serving", load_attempted |-> TRUE,
            listening |-> TRUE]

\* ------------------------------------------------------------------- Init
\* the module globals of broker.py as the import leaves them
Globals ==
    /\ pending_requests = << >>
    /\ request_queue = << >>
    /\ request_queue_event = FALSE
    /\ request_queue_lock = Free
    /\ broker_stats = [lightroom_connected |-> FALSE,
                       lightroom_last_poll |-> NeverPolled,
                       requests_total |-> 0,
                       requests_success |-> 0,
                       requests_failed |-> 0,
                       requests_timeout |-> 0,
                       avg_latency_ms |-> [num |-> 0, den |-> 1],
                       total_latency_ms |-> 0,
                       recent_requests |-> << >>]
    /\ socket_client = NoClient
    /\ uuid4_count = 0
    /\ now = 0
    /\ req = [r \in Requests |->
                [pc |-> "start", request_uuid |-> NoUuid,
                 request_data |-> NoUuid, got_response |-> FALSE,
                 pending_data |-> NoData, latency_ms |-> 0,
                 returned |-> << >>]]
    /\ poll = [k \in Pollers |-> [pc |-> "idle", request_data |-> NoUuid,
                                   status |-> 0]]
    /\ sess = [s \in Sessions |-> [pc |-> "accept", request_data |-> NoUuid,
                                    queue_before |-> << >>, cause |-> None,
                                    frame |-> NoFrame]]
    /\ nresolve = 0
    /\ last_response = [uuid |-> Absent, status |-> 0]
    /\ resolve_log = << >>
    /\ push_log = << >>
    /\ pop_log = << >>
    /\ requeued = << >>
    /\ handed = {}
    /\ lost = {}
    /\ chk = [c \in Checkers |-> [pc |-> "idle", last_poll |-> NeverPolled,
                                   is_connected |-> FALSE,
                                   status_changed |-> FALSE]]
    /\ events = << >>
    /\ connect_log = << >>
    /\ stats_lock = Free
    /\ ws_clients = << >>
    /\ ws_state = [o \in Observers |-> "open"]
    /\ ws = [o \in Observers |-> [pc |-> "idle", is_connected |-> FALSE]]
    /\ inbox = [o \in Observers |-> {}]
    /\ bcast = [t \in Callers |-> NoBroadcast]
    /\ saver = [r \in Requests |-> NoSaver]
    /\ history_file = NoFile
    /\ loader = NoLoader
    /\ pending_requests_lock = Free
    /\ ws_clients_lock = Free
    /\ socket_client_lock = Free
    /\ thread = [t \in Threads |-> << >>]

\* the broker started by run_broker, serving, before the first call
Init == Globals /\ boot = Serving

\* ---------------------------------------------------- handle_request (229)
\* (bug variant: a plain list, which never drops an element)
DequeExtend_Unbounded(buffer, records) == buffer \o records

\* deque(maxlen=100) (line 74): each append to a full deque drops the
\* leftmost element, so appending records one after the other keeps the last
\* maxlen elements of the concatenation
DequeExtend(buffer, records) ==
    LET all == buffer \o records
    IN  IF Len(all) > HistoryCapacity
        THEN SubSeq(all, Len(all) - HistoryCapacity + 1, Len(all))
        ELSE all

\* recent_requests.append(record) (lines 293 and 337)
DequeAppend(buffer, record) == DequeExtend(buffer, <<record>>)

\* line 327: latency_ms = (now - started_at).total_seconds() * 1000
LatencyMs(started_at) == (now - started_at) * 1000

\* total_latency_ms / requests_success (line 336), kept as an exact fraction
Mean(total, count) == [num |-> total, den |-> count]

\* (bug variant: a timeout is also counted as a failure)
RecordTimeout_AlsoFailed(stats, request_uuid) ==
    [stats EXCEPT !.requests_timeout = @ + 1,
                  !.requests_failed = @ + 1,
                  !.recent_requests =
                      DequeAppend(@, [uuid |-> request_uuid, success |-> FALSE,
                                      latency_ms |-> REQUEST_TIMEOUT * 1000])]

\* lines 291-302: the timeout path under stats_lock
RecordTimeout(stats, request_uuid) ==
    [stats EXCEPT !.requests_timeout = @ + 1,
                  !.recent_requests =
                      DequeAppend(@, [uuid |-> request_uuid, success |-> FALSE,
                                      latency_ms |-> REQUEST_TIMEOUT * 1000])]

\* (bug variant: the mean is taken over every counted request)
RecordSuccess_OverTotal(stats, request_uuid, latency_ms) ==
    [stats EXCEPT !.requests_success = @ + 1,
                  !.total_latency_ms = @ + latency_ms,
                  !.avg_latency_ms = Mean(stats.total_latency_ms + latency_ms,
                                          stats.requests_total),
                  !.recent_requests =
                      DequeAppend(@, [uuid |-> request_uuid, success |-> TRUE,
                                      latency_ms |-> latency_ms])]

\* lines 333-345: the success path under stats_lock (the clock counts whole
\* seconds, so round(latency_ms, 2) keeps the value)
RecordSuccess(stats, request_uuid, latency_ms) ==
    [stats EXCEPT !.requests_success = @ + 1,
                  !.total_latency_ms = @ + latency_ms,
                  !.avg_latency_ms = Mean(stats.total_latency_ms + latency_ms,
                                          stats.requests_success + 1),
                  !.recent_requests =
                      DequeAppend(@, [uuid |-> request_uuid, success |-> TRUE,
                                      latency_ms |-> latency_ms])]

\* stats update of the outcome (lines 282-345)
RecordOutcome(stats, request_uuid, got_response, pending_data) ==
    IF IsTimeout(got_response, pending_data)
    THEN RecordTimeout(stats, request_uuid)
    ELSE RecordSuccess(stats, request_uuid, LatencyMs(pending_data.started_at))

\* the "_broker_uuid" field of the body a producer posts: none, a string
\* the broker never issued, or the uuid of the first request
SuppliedIds == {Absent, NeverIssued, 1}

\* (bug variant: request_data.setdefault, which keeps a supplied id)
AssignUuid_KeepSupplied(supplied, generated) ==
    IF supplied = Absent THEN generated ELSE supplied

\* line 242: request_data["_broker_uuid"] = request_uuid
AssignUuid(supplied, generated) == generated

\* lines 236-255: parse the body, generate the uuid, register the entry.
\* An empty body is answered 400; a body that is not an object raises at
\* line 242 and is answered 500 by the handler's except clause.
RequestAccept(r) ==
    /\ req[r].pc = "start"
    /\ \E body \in RequestBodies :
        \/ /\ body = "empty"
           /\ req' = [req EXCEPT ![r].pc = "done",
                        ![r].returned = <<[kind |-> "rejected", code |-> 400,
                                           payload |-> None]>>]
           /\ UNCHANGED <<pending_requests, broker_stats, uuid4_count>>
        \/ /\ body = "list"
           /\ stats_lock = Free
           /\ uuid4_count' = uuid4_count + 1
           /\ broker_stats' = [broker_stats EXCEPT !.requests_failed = @ + 1]
           /\ req' = [req EXCEPT ![r].pc = "done",
                        ![r].returned = <<[kind |-> "failed", code |-> 500,
                                           payload |-> None]>>]
           /\ UNCHANGED pending_requests
        \/ /\ body = "dict"
           /\ stats_lock = Free
           /\ uuid4_count' = uuid4_count + 1
           /\ pending_requests' = Register(pending_requests, uuid4_count + 1)
           /\ \E supplied \in SuppliedIds :
                 req' = [req EXCEPT ![r].pc = "enqueue",
                           ![r].request_uuid = uuid4_count + 1,
                           ![r].request_data =
                               AssignUuid(supplied, uuid4_count + 1)]
           /\ UNCHANGED broker_stats
    /\ UNCHANGED <<extraVars, queueVars, socket_client, now, chk, events, connect_log, poll, sess, resolveLogs,
                   queueLogs>>

\* lines 258-260: request_queue.append(request_data); request_queue_event.set()
RequestEnqueue(r) ==
    /\ req[r].pc = "enqueue"
    /\ request_queue_lock = Free
    /\ request_queue' = Append(request_queue, req[r].request_data)
    /\ request_queue_event' = TRUE
    /\ push_log' = Append(push_log, req[r].request_data)
    /\ req' = [req EXCEPT ![r].pc = "count"]
    /\ UNCHANGED <<extraVars, pending_requests, request_queue_lock, broker_stats,
                   socket_client, uuid4_count, now, chk, events, connect_log, poll, sess, resolveLogs,
                   pop_log, requeued, handed, lost>>

\* lines 263-274: requests_total += 1 under stats_lock, then broadcast_ws
\* is called with the request_start message and takes its snapshot of the
\* observers; its sends are the steps of broadcast_ws, and the handler goes
\* on to line 277 when the call has returned
RequestCount(r) ==
    /\ req[r].pc = "count"
    /\ stats_lock = Free
    /\ broker_stats' = [broker_stats EXCEPT !.requests_total = @ + 1]
    /\ bcast' = BroadcastBegin(<<"req", r>>, RequestStart(req[r].request_uuid))
    /\ req' = [req EXCEPT ![r].pc = "wait"]
    /\ UNCHANGED <<observerVars, saveVars, boot, lockVars, registryVars, queueVars, socket_client, uuid4_count, now, chk, events, connect_log,
                   poll, sess, resolveLogs, queueLogs>>

\* (bug variant: response_event.wait() without a timeout)
RequestWait_NoDeadline(r) ==
    /\ req[r].pc = "wait"
    /\ ~Broadcasting(<<"req", r>>)
    /\ pending_requests[req[r].request_uuid].event
    /\ req' = [req EXCEPT ![r].pc = "pop", ![r].got_response = TRUE]
    /\ UNCHANGED <<extraVars, registryVars, queueVars, broker_stats, socket_client,
                   uuid4_count, now, chk, events, connect_log, poll, sess, resolveLogs, queueLogs>>

\* line 277: response_event.wait(timeout=REQUEST_TIMEOUT) returns True when
\* the event is set and False when the deadline elapses first.  The deadline
\* can elapse at any moment relative to the other threads.
RequestWait(r) ==
    /\ req[r].pc = "wait"
    /\ ~Broadcasting(<<"req", r>>)
    /\ req' = [req EXCEPT ![r].pc = "pop",
                 ![r].got_response = pending_requests[req[r].request_uuid].event]
    /\ UNCHANGED <<extraVars, registryVars, queueVars, broker_stats, socket_client,
                   uuid4_count, now, chk, events, connect_log, poll, sess, resolveLogs, queueLogs>>

\* lines 279-280: pending_data = pending_requests.pop(request_uuid, None)
RequestPop(r) ==
    /\ req[r].pc = "pop"
    /\ req' = [req EXCEPT ![r].pc = "finish",
                 ![r].pending_data = Popped(pending_requests, req[r].request_uuid)]
    /\ pending_requests' = Purge(pending_requests, req[r].request_uuid)
    /\ UNCHANGED <<extraVars, queueVars, broker_stats, socket_client, uuid4_count, now, chk, events, connect_log,
                   poll, sess, resolveLogs, queueLogs>>

\* lines 282-324 and 326-367: record the outcome under stats_lock, start
\* the save_history thread (HISTORY_AUTO_SAVE is True, line 81) and call
\* broadcast_ws with the request_complete message, which takes its snapshot.
\* With no observer registered the call returns at line 182 and the handler
\* returns the outcome; otherwise it returns when the sends are over.
RequestFinish(r) ==
    /\ req[r].pc = "finish"
    /\ stats_lock = Free
    /\ broker_stats' = RecordOutcome(broker_stats, req[r].request_uuid,
                                     req[r].got_response, req[r].pending_data)
    /\ saver' = [saver EXCEPT ![r] = [pc |-> "snapshot", snapshot |-> << >>,
                                      ok |-> TRUE]]
    /\ bcast' = BroadcastBegin(<<"req", r>>,
                    RequestComplete(req[r].request_uuid,
                        ~IsTimeout(req[r].got_response, req[r].pending_data)))
    /\ LET recorded == [req EXCEPT ![r].pc = "complete",
                 ![r].latency_ms =
                     IF IsTimeout(req[r].got_response, req[r].pending_data)
                     THEN 0 ELSE LatencyMs(req[r].pending_data.started_at)]
       IN  req' = IF ws_clients = << >> THEN Return(recorded, r) ELSE recorded
    /\ UNCHANGED <<observerVars, history_file, loader, boot, lockVars, registryVars, queueVars, socket_client, uuid4_count, now, chk, events, connect_log,
                   poll, sess, resolveLogs, queueLogs>>

handle_request(r) ==
    \/ RequestAccept(r)
    \/ RequestEnqueue(r)
    \/ RequestCount(r)
    \/ RequestWait(r)
    \/ RequestPop(r)
    \/ RequestFinish(r)

\* ------------------------------------------------------- handle_poll (376)
\* lines 384-388 and 658-662: record consumer activity
TouchActivity(stats) ==
    [stats EXCEPT !.lightroom_last_poll = now, !.lightroom_connected = TRUE]

\* (bug variant: every poll call and socket connect reports connected)
ShouldBroadcast_Always(stats) == TRUE

\* lines 386-388 and 660-662: should_broadcast, set when the flag was False
ShouldBroadcast(stats) == ~stats.lightroom_connected

\* the status_update message of lines 214-217, 393-397 and 667-671
StatusUpdate(connected) == [type |-> "status_update", connected |-> connected]

\* (bug variant: the signal is never cleared)
EventAfterPop_Keep(queue_after, event) == event

\* lines 405-406 and 705-706: the wake signal after a popleft
EventAfterPop(queue_after, event) ==
    IF queue_after = << >> THEN FALSE ELSE event

\* (bug variant: request_queue.pop(), which takes the newest entry)
PopLeft_Right(queue) ==
    [entry |-> queue[Len(queue)], rest |-> SubSeq(queue, 1, Len(queue) - 1)]

\* (bug variant: request_queue[0], which leaves the entry in the queue)
PopLeft_Peek(queue) == [entry |-> Head(queue), rest |-> queue]

\* request_queue.popleft(): the entry taken and the queue left
PopLeft(queue) == [entry |-> Head(queue), rest |-> Tail(queue)]

\* lines 384-388: the poll call counts as consumer activity (stats_lock)
PollBegin(k) ==
    /\ poll[k].pc = "idle"
    /\ stats_lock = Free
    /\ broker_stats' = TouchActivity(broker_stats)
    /\ poll' = [poll EXCEPT ![k] =
                  [pc |-> IF ShouldBroadcast(broker_stats) THEN "announce"
                          ELSE "wait",
                   request_data |-> NoUuid, status |-> 0]]
    /\ UNCHANGED <<extraVars, registryVars, queueVars, socket_client, uuid4_count, now, chk, events, connect_log,
                   req, sess, resolveLogs, queueLogs>>

\* lines 391-397: after the lock is released, broadcast_ws is called with
\* the transition and takes its snapshot of the observers
PollAnnounce(k) ==
    /\ poll[k].pc = "announce"
    /\ events' = Append(events, StatusUpdate(TRUE))
    /\ bcast' = BroadcastBegin(<<"poll", k>>, StatusUpdate(TRUE))
    /\ poll' = [poll EXCEPT ![k].pc = "wait"]
    /\ UNCHANGED <<observerVars, saveVars, boot, lockVars, registryVars, queueVars, broker_stats, socket_client,
                   uuid4_count, now, chk, connect_log, req, sess, resolveLogs,
                   queueLogs>>

\* lines 400-409: request_queue_event.wait(timeout=POLL_TIMEOUT) returns when
\* the signal is set or the poll timeout elapsed, then the queue is inspected
\* under request_queue_lock: popleft, or 204 when it is empty.
PollPop(k) ==
    /\ poll[k].pc = "wait"
    /\ ~Broadcasting(<<"poll", k>>)
    /\ request_queue_lock = Free
    /\ IF request_queue # << >>
       THEN /\ request_queue' = PopLeft(request_queue).rest
            /\ request_queue_event' =
                   EventAfterPop(PopLeft(request_queue).rest, request_queue_event)
            /\ poll' = [poll EXCEPT ![k].pc = "respond",
                          ![k].request_data = PopLeft(request_queue).entry]
            /\ pop_log' = Append(pop_log, PopLeft(request_queue).entry)
       ELSE /\ poll' = [poll EXCEPT ![k].pc = "idle", ![k].status = 204]
            /\ UNCHANGED <<request_queue, request_queue_event, pop_log>>
    /\ UNCHANGED <<extraVars, registryVars, request_queue_lock, broker_stats,
                   socket_client, uuid4_count, now, chk, events, connect_log, req, sess, resolveLogs,
                   push_log, requeued, handed, lost>>

\* line 407: return jsonify(request_data).  The handler has returned; the
\* HTTP server writes the body to the polling connection, which the consumer
\* may have closed while the handler was waiting.
PollRespond(k) ==
    /\ poll[k].pc = "respond"
    /\ \E connected \in BOOLEAN :
        IF connected
        THEN /\ handed' = handed \cup {<<poll[k].request_data, <<"poll", k>> >>}
             /\ UNCHANGED lost
        ELSE /\ lost' = lost \cup {poll[k].request_data}
             /\ UNCHANGED handed
    /\ poll' = [poll EXCEPT ![k].pc = "idle", ![k].status = 200]
    /\ UNCHANGED <<extraVars, registryVars, queueVars, broker_stats, socket_client,
                   uuid4_count, now, chk, events, connect_log, req, sess, resolveLogs, push_log, pop_log,
                   requeued>>

handle_poll(k) ==
    \/ PollBegin(k)
    \/ PollAnnounce(k)
    \/ PollPop(k)
    \/ PollRespond(k)

\* --------------------------------------------------- handle_response (412)
IdFields == {Absent, Falsy, NeverIssued} \cup (1..uuid4_count)
ResponseMessages == [uuid : IdFields, body : Payloads]

\* lines 419-436: the status the handler answers for a posted message
ResponseStatus(reg, m) ==
    IF m.uuid = Absent /\ m.body = EmptyObj THEN 400        \* not response_data
    ELSE IF m.uuid \in {Absent, Falsy} THEN 400             \* not request_uuid
    ELSE IF m.uuid \in DOMAIN reg THEN 200
    ELSE 404

\* (bug variant: the response is stored whatever the lookup found)
ResponseEffect_NoLookup(reg, m) ==
    IF m.uuid \in {Absent, Falsy} THEN reg
    ELSE [u \in (DOMAIN reg) \cup {m.uuid} |->
            IF u = m.uuid
            THEN [response |-> m.body, event |-> TRUE, started_at |-> now]
            ELSE reg[u]]

\* lines 428-436: the registry after the handler
ResponseEffect(reg, m) ==
    IF ResponseStatus(reg, m) = 200 THEN StoreResponse(reg, m.uuid, m.body)
    ELSE reg

handle_response ==
    /\ nresolve < MaxResolves
    /\ stats_lock = Free
    /\ \E m \in ResponseMessages :
        /\ pending_requests' = ResponseEffect(pending_requests, m)
        /\ last_response' = [uuid |-> m.uuid,
                             status |-> ResponseStatus(pending_requests, m)]
        /\ resolve_log' =
               IF ResponseStatus(pending_requests, m) = 200
               THEN Append(resolve_log, <<m.uuid, m.body>>)
               ELSE resolve_log
    /\ nresolve' = nresolve + 1
    /\ UNCHANGED <<extraVars, queueVars, broker_stats, socket_client, uuid4_count, now, chk, events, connect_log,
                   req, poll, sess, queueLogs>>

\* --------------------------------------------- handle_socket_message (735)
\* lines 738-749: "_broker_uuid" in message, then the registry lookup
SocketAccepts(reg, m) == m.uuid # Absent /\ m.uuid \in DOMAIN reg

\* (bug variant: the response is stored whenever the message carries an id)
SocketMessageEffect_KeyOnly(reg, m) ==
    IF m.uuid = Absent THEN reg
    ELSE [u \in (DOMAIN reg) \cup {m.uuid} |->
            IF u = m.uuid
            THEN [response |-> m.body, event |-> TRUE, started_at |-> now]
            ELSE reg[u]]

\* lines 738-744: the registry after handle_socket_message
SocketMessageEffect(reg, m) ==
    IF SocketAccepts(reg, m) THEN StoreResponse(reg, m.uuid, m.body) ELSE reg

\* --------------------------------------------- handle_socket_client (647)
Me(s) == <<"sess", s>>

\* lines 688-695: what a newline-terminated line of the stream can hold
\* besides a JSON object: bytes json.loads rejects, bytes that are not
\* UTF-8, a JSON array and a JSON number
MalformedKinds == {"invalid json", "invalid utf8", "array", "number"}

Frames ==
    [kind : {"object"}, uuid : IdFields, body : Payloads] \cup
    [kind : MalformedKinds, uuid : {Absent}, body : {EmptyObj}]

\* lines 691-695 and 738: only json.JSONDecodeError is caught at line 694.
\* line.decode raises UnicodeDecodeError on bytes that are not UTF-8, and
\* '"_broker_uuid" in message' raises TypeError on a number; both reach the
\* except clause of line 720, outside the loop.  A JSON array passes line
\* 738 with False.
FrameRaises(f) == f.kind \in {"invalid utf8", "number"}

\* the message handle_socket_message works on
FrameMessage(f) == [uuid |-> f.uuid, body |-> f.body]

\* (bug variant: request_queue.append, which re-queues at the tail)
PushFront_Back(queue, entry) == Append(queue, entry)

\* request_queue.appendleft(request_data) (line 716)
PushFront(queue, entry) == <<entry>> \o queue

\* lines 653-654: socket_client = client_socket
SocketConnect(s) ==
    /\ sess[s].pc = "accept"
    /\ socket_client' = s
    /\ connect_log' = Append(connect_log, s)
    /\ sess' = [sess EXCEPT ![s].pc = "status"]
    /\ UNCHANGED <<extraVars, registryVars, queueVars, broker_stats, uuid4_count, now,
                   chk, events, req, poll, resolveLogs, queueLogs>>

\* lines 657-662: the connect counts as consumer activity (stats_lock)
SocketStatus(s) ==
    /\ sess[s].pc = "status"
    /\ stats_lock = Free
    /\ broker_stats' = TouchActivity(broker_stats)
    /\ sess' = [sess EXCEPT ![s].pc =
                  IF ShouldBroadcast(broker_stats) THEN "announce" ELSE "select"]
    /\ UNCHANGED <<extraVars, registryVars, queueVars, socket_client, uuid4_count, now,
                   chk, events, connect_log, req, poll, resolveLogs, queueLogs>>

\* lines 665-671: after the lock is released, broadcast_ws is called with
\* the transition and takes its snapshot of the observers
SocketAnnounce(s) ==
    /\ sess[s].pc = "announce"
    /\ events' = Append(events, StatusUpdate(TRUE))
    /\ bcast' = BroadcastBegin(Me(s), StatusUpdate(TRUE))
    /\ sess' = [sess EXCEPT ![s].pc = "select"]
    /\ UNCHANGED <<observerVars, saveVars, boot, lockVars, registryVars, queueVars, broker_stats, socket_client,
                   uuid4_count, now, chk, connect_log, req, poll, resolveLogs,
                   queueLogs>>

\* lines 678-695: select reports data, recv returns one newline-terminated
\* frame.  A JSON object is applied to the registry by handle_socket_message;
\* a frame json.loads rejects and a JSON array are logged and dropped; any
\* other exception leaves the loop through line 720.
SocketRecv(s) ==
    /\ sess[s].pc = "select"
    /\ ~Broadcasting(Me(s))
    /\ stats_lock = Free
    /\ nresolve < MaxResolves
    /\ \E f \in Frames :
        IF f.kind = "object"
        THEN /\ pending_requests' =
                    SocketMessageEffect(pending_requests, FrameMessage(f))
             /\ resolve_log' =
                    IF SocketAccepts(pending_requests, FrameMessage(f))
                    THEN Append(resolve_log, <<f.uuid, f.body>>)
                    ELSE resolve_log
             /\ sess' = [sess EXCEPT ![s].pc = "touch", ![s].frame = f]
        ELSE /\ sess' = [sess EXCEPT ![s].frame = f,
                           ![s].pc = IF FrameRaises(f) THEN "finally" ELSE "touch",
                           ![s].cause = IF FrameRaises(f) THEN "frame error" ELSE @]
             /\ UNCHANGED <<pending_requests, resolve_log>>
    /\ nresolve' = nresolve + 1
    /\ UNCHANGED <<extraVars, last_response, queueVars, broker_stats, socket_client, uuid4_count, now, chk, events, connect_log,
                   req, poll, queueLogs>>

\* lines 681-683 and 720-721: recv returns b"" (peer closed) or raises
SocketClose(s) ==
    /\ sess[s].pc = "select"
    /\ ~Broadcasting(Me(s))
    /\ \E cause \in {"peer close", "read error"} :
        sess' = [sess EXCEPT ![s].pc = "finally", ![s].cause = cause]
    /\ UNCHANGED <<extraVars, registryVars, queueVars, broker_stats, socket_client,
                   uuid4_count, now, chk, events, connect_log, req, poll, resolveLogs, queueLogs>>

\* lines 698-699: lightroom_last_poll = now, on every turn of the loop (from
\* "select" when select timed out with nothing to read)
SocketTouch(s) ==
    /\ sess[s].pc \in {"select", "touch"}
    /\ ~Broadcasting(Me(s))
    /\ stats_lock = Free
    /\ broker_stats' = [broker_stats EXCEPT !.lightroom_last_poll = now]
    /\ sess' = [sess EXCEPT ![s].pc = "queue", ![s].frame = NoFrame]
    /\ UNCHANGED <<extraVars, registryVars, queueVars, socket_client, uuid4_count, now, chk, events, connect_log,
                   req, poll, resolveLogs, queueLogs>>

\* lines 702-706: take request_queue_lock; popleft when the queue is not
\* empty.  The lock stays held while the entry is written (line 711).
SocketPop(s) ==
    /\ sess[s].pc = "queue"
    /\ request_queue_lock = Free
    /\ IF request_queue # << >>
       THEN /\ request_queue' = PopLeft(request_queue).rest
            /\ request_queue_event' =
                   EventAfterPop(PopLeft(request_queue).rest, request_queue_event)
            /\ request_queue_lock' = Me(s)
            /\ sess' = [sess EXCEPT ![s].pc = "send",
                          ![s].request_data = PopLeft(request_queue).entry,
                          ![s].queue_before = request_queue]
            /\ pop_log' = Append(pop_log, PopLeft(request_queue).entry)
       ELSE /\ sess' = [sess EXCEPT ![s].pc = "select"]
            /\ UNCHANGED <<request_queue, request_queue_event,
                           request_queue_lock, pop_log>>
    /\ UNCHANGED <<extraVars, registryVars, broker_stats, socket_client, uuid4_count, now, chk, events, connect_log,
                   req, poll, resolveLogs, push_log, requeued, handed, lost>>

\* lines 709-712: sendall succeeded; the with-block ends, the loop goes on
SocketSendOk(s) ==
    /\ sess[s].pc = "send"
    /\ request_queue_lock = Me(s)
    /\ request_queue_lock' = Free
    /\ handed' = handed \cup {<<sess[s].request_data, Me(s)>>}
    /\ sess' = [sess EXCEPT ![s].pc = "select", ![s].request_data = NoUuid,
                            ![s].queue_before = << >>]
    /\ UNCHANGED <<extraVars, registryVars, request_queue, request_queue_event,
                   broker_stats, socket_client, uuid4_count, now, chk, events, connect_log, req, poll,
                   resolveLogs, push_log, pop_log, requeued, lost>>

\* lines 713-718: sendall raised; appendleft, set the signal, break (which
\* leaves the with-block and releases the lock)
SocketSendFail(s) ==
    /\ sess[s].pc = "send"
    /\ request_queue_lock = Me(s)
    /\ request_queue' = PushFront(request_queue, sess[s].request_data)
    /\ request_queue_event' = TRUE
    /\ request_queue_lock' = Free
    /\ requeued' = Append(requeued, sess[s].request_data)
    /\ sess' = [sess EXCEPT ![s].pc = "finally", ![s].cause = "write error"]
    /\ UNCHANGED <<extraVars, registryVars, broker_stats, socket_client, uuid4_count, now, chk, events, connect_log,
                   req, poll, resolveLogs, push_log, pop_log, handed, lost>>

\* lines 723-732: socket_client = None; client_socket.close()
SocketFinally(s) ==
    /\ sess[s].pc = "finally"
    /\ socket_client' = NoClient
    /\ sess' = [sess EXCEPT ![s].pc = "closed", ![s].frame = NoFrame]
    /\ UNCHANGED <<extraVars, registryVars, queueVars, broker_stats, uuid4_count, now, chk, events, connect_log,
                   req, poll, resolveLogs, queueLogs>>

handle_socket_client(s) ==
    \/ SocketConnect(s)
    \/ SocketStatus(s)
    \/ SocketAnnounce(s)
    \/ SocketRecv(s)
    \/ SocketClose(s)
    \/ SocketTouch(s)
    \/ SocketPop(s)
    \/ SocketSendOk(s)
    \/ SocketSendFail(s)
    \/ SocketFinally(s)

\* --------------------------------------- update_lr_connection_status (196)
\* (bug variant: every check that finds the consumer silent reports it)
StatusChanged_WheneverDown(was_connected, is_connected) == ~is_connected

\* line 211: was_connected != is_connected
StatusChanged(was_connected, is_connected) == was_connected # is_connected

\* (bug variant: a consumer that was active once counts as connected for ever)
IsConnected_Always(last_poll) == TRUE

\* (bug variant: the consumer still counts as connected at the timeout)
IsConnected_Inclusive(last_poll) == (now - last_poll) <= LR_CONNECTION_TIMEOUT

\* lines 205 and 208: elapsed < LR_CONNECTION_TIMEOUT
IsConnected(last_poll) == (now - last_poll) < LR_CONNECTION_TIMEOUT

\* lines 202-217, under stats_lock: nothing happens before the first consumer
\* activity; afterwards the flag is recomputed and a change is remembered
CheckCompute(c) ==
    /\ chk[c].pc = "idle"
    /\ ~Broadcasting(<<"chk", c>>)
    /\ stats_lock = Free
    /\ IF broker_stats.lightroom_last_poll = NeverPolled
       THEN /\ chk' = [chk EXCEPT ![c].last_poll = NeverPolled,
                                  ![c].is_connected = FALSE,
                                  ![c].status_changed = FALSE]
            /\ UNCHANGED broker_stats
       ELSE /\ broker_stats' =
                   [broker_stats EXCEPT !.lightroom_connected =
                        IsConnected(broker_stats.lightroom_last_poll)]
            /\ chk' = [chk EXCEPT ![c] =
                   [pc |-> IF StatusChanged(broker_stats.lightroom_connected,
                                  IsConnected(broker_stats.lightroom_last_poll))
                           THEN "announce" ELSE "idle",
                    last_poll |-> broker_stats.lightroom_last_poll,
                    is_connected |-> IsConnected(broker_stats.lightroom_last_poll),
                    status_changed |->
                        StatusChanged(broker_stats.lightroom_connected,
                            IsConnected(broker_stats.lightroom_last_poll))]]
    /\ UNCHANGED <<extraVars, registryVars, queueVars, socket_client, uuid4_count, now,
                   events, connect_log, req, poll, sess, resolveLogs, queueLogs>>

\* lines 219-223, outside the lock: log and broadcast the remembered change
CheckAnnounce(c) ==
    /\ chk[c].pc = "announce"
    /\ events' = Append(events, StatusUpdate(chk[c].is_connected))
    /\ bcast' = BroadcastBegin(<<"chk", c>>, StatusUpdate(chk[c].is_connected))
    /\ chk' = [chk EXCEPT ![c].pc = "idle"]
    /\ UNCHANGED <<observerVars, saveVars, boot, lockVars, registryVars, queueVars, broker_stats, socket_client,
                   uuid4_count, now, connect_log, req, poll, sess, resolveLogs,
                   queueLogs>>

update_lr_connection_status(c) ==
    \/ CheckCompute(c)
    \/ CheckAnnounce(c)

\* ------------------------------------------------------- websocket (598)
\* lines 610-618: the initial status message, built from broker_stats
InitialStatus(stats) ==
    [type |-> "status_update", connected |-> stats.lightroom_connected,
     requests_total |-> stats.requests_total,
     requests_success |-> stats.requests_success,
     avg_latency_ms |-> stats.avg_latency_ms]

\* lines 601-602: ws_clients.append(ws) under ws_clients_lock
WsSubscribe(o) ==
    /\ ws[o].pc = "idle"
    /\ ws_clients' = Append(ws_clients, o)
    /\ ws' = [ws EXCEPT ![o].pc = "check"]
    /\ UNCHANGED <<registryVars, queueVars, broker_stats, socket_client,
                   uuid4_count, now, req, poll, sess, resolveLogs, queueLogs,
                   chk, events, connect_log, stats_lock, ws_state, inbox,
                   bcast, saveVars, boot, lockVars>>

\* line 607: update_lr_connection_status(), its stats_lock section
\* (lines 202-217)
WsCheck(o) ==
    /\ ws[o].pc = "check"
    /\ stats_lock = Free
    /\ IF broker_stats.lightroom_last_poll = NeverPolled
       THEN /\ ws' = [ws EXCEPT ![o].pc = "status", ![o].is_connected = FALSE]
            /\ UNCHANGED broker_stats
       ELSE /\ broker_stats' =
                   [broker_stats EXCEPT !.lightroom_connected =
                        IsConnected(broker_stats.lightroom_last_poll)]
            /\ ws' = [ws EXCEPT ![o] =
                   [pc |-> IF StatusChanged(broker_stats.lightroom_connected,
                                  IsConnected(broker_stats.lightroom_last_poll))
                           THEN "announce" ELSE "status",
                    is_connected |-> IsConnected(broker_stats.lightroom_last_poll)]]
    /\ UNCHANGED <<registryVars, queueVars, socket_client, uuid4_count, now,
                   req, poll, sess, resolveLogs, queueLogs, chk, events,
                   connect_log, stats_lock, ws_clients, ws_state, inbox,
                   bcast, saveVars, boot, lockVars>>

\* line 607: update_lr_connection_status(), its broadcast (lines 219-223)
WsAnnounce(o) ==
    /\ ws[o].pc = "announce"
    /\ events' = Append(events, StatusUpdate(ws[o].is_connected))
    /\ bcast' = BroadcastBegin(<<"ws", o>>, StatusUpdate(ws[o].is_connected))
    /\ ws' = [ws EXCEPT ![o].pc = "status"]
    /\ UNCHANGED <<registryVars, queueVars, broker_stats, socket_client,
                   uuid4_count, now, req, poll, sess, resolveLogs, queueLogs,
                   chk, connect_log, stats_lock, ws_clients, ws_state, inbox,
                   saveVars, boot, lockVars>>

\* line 608: "with stats_lock:" is entered; ws.send is called inside it
WsStatusAcquire(o) ==
    /\ ws[o].pc = "status"
    /\ ~Broadcasting(<<"ws", o>>)
    /\ stats_lock = Free
    /\ stats_lock' = <<"ws", o>>
    /\ ws' = [ws EXCEPT ![o].pc = "send"]
    /\ UNCHANGED <<registryVars, queueVars, broker_stats, socket_client,
                   uuid4_count, now, req, poll, sess, resolveLogs, queueLogs,
                   chk, events, connect_log, ws_clients, ws_state, inbox,
                   bcast, saveVars, boot, lockVars>>

\* lines 609-618: ws.send returns or raises, which ends the with-block.  An
\* exception leaves websocket() before its try statement, so the finally
\* clause of line 628 does not run and ws stays in ws_clients.
WsStatusSend(o) ==
    /\ ws[o].pc = "send"
    /\ stats_lock = <<"ws", o>>
    /\ ws_state[o] # "stuck"
    /\ stats_lock' = Free
    /\ IF ws_state[o] = "open"
       THEN /\ inbox' = [inbox EXCEPT ![o] = @ \cup {InitialStatus(broker_stats)}]
            /\ ws' = [ws EXCEPT ![o].pc = "receive"]
       ELSE /\ ws' = [ws EXCEPT ![o].pc = "failed"]
            /\ UNCHANGED inbox
    /\ UNCHANGED <<registryVars, queueVars, broker_stats, socket_client,
                   uuid4_count, now, req, poll, sess, resolveLogs, queueLogs,
                   chk, events, connect_log, ws_clients, ws_state, bcast,
                   saveVars, boot, lockVars>>

\* lines 620-631: ws.receive returns None or raises; the finally clause
\* removes ws from ws_clients if it is still there, and the connection is
\* closed when the handler returns
WsClose(o) ==
    /\ ws[o].pc = "receive"
    /\ ws_clients' = RemoveDead(ws_clients, <<o>>)
    /\ ws_state' = [ws_state EXCEPT ![o] = "broken"]
    /\ ws' = [ws EXCEPT ![o].pc = "closed"]
    /\ UNCHANGED <<registryVars, queueVars, broker_stats, socket_client,
                   uuid4_count, now, req, poll, sess, resolveLogs, queueLogs,
                   chk, events, connect_log, stats_lock, inbox, bcast,
                   saveVars, boot, lockVars>>

websocket(o) ==
    \/ WsSubscribe(o)
    \/ WsCheck(o)
    \/ WsAnnounce(o)
    \/ WsStatusAcquire(o)
    \/ WsStatusSend(o)
    \/ WsClose(o)

\* the observer's connection: from some moment on a send to it raises
\* (the peer went away)
WsBreak(o) ==
    /\ ws[o].pc # "idle"
    /\ ws_state[o] = "open"
    /\ ws_state' = [ws_state EXCEPT ![o] = "broken"]
    /\ UNCHANGED <<registryVars, queueVars, broker_stats, socket_client,
                   uuid4_count, now, req, poll, sess, resolveLogs, queueLogs,
                   chk, events, connect_log, stats_lock, ws_clients, ws,
                   inbox, bcast, saveVars, boot, lockVars>>

\* the observer's connection: from some moment on a send to it does not
\* return (the peer stopped reading and the send buffer is full)
WsStall(o) ==
    /\ ws[o].pc # "idle"
    /\ ws_state[o] = "open"
    /\ ws_state' = [ws_state EXCEPT ![o] = "stuck"]
    /\ UNCHANGED <<registryVars, queueVars, broker_stats, socket_client,
                   uuid4_count, now, req, poll, sess, resolveLogs, queueLogs,
                   chk, events, connect_log, stats_lock, ws_clients, ws,
                   inbox, bcast, saveVars, boot, lockVars>>

\* ---------------------------------------------------- save_history (87)
\* lines 89-94: under stats_lock, history_data takes a copy of the buffer
SaveSnapshot(r) ==
    /\ saver[r].pc = "snapshot"
    /\ stats_lock = Free
    /\ saver' = [saver EXCEPT ![r].pc = "write",
                              ![r].snapshot = broker_stats.recent_requests]
    /\ UNCHANGED <<registryVars, queueVars, broker_stats, socket_client,
                   uuid4_count, now, req, poll, sess, resolveLogs, queueLogs,
                   chk, events, connect_log, observerVars, bcast,
                   history_file, loader, boot, lockVars>>

\* the numbers a history record holds: latencies in ms and (standing for
\* the uuid strings) the uuids of this run
JsonNumbers ==
    {t * 1000 : t \in 0..REQUEST_TIMEOUT} \cup (0..(MaxRequests + 1))

\* line 97, json.dump of one record: every value becomes its JSON text
JsonObject(record) ==
    [uuid |-> ToString(record.uuid),
     success |-> IF record.success THEN "true" ELSE "false",
     latency_ms |-> ToString(record.latency_ms)]

\* line 97, json.dump of the "requests" list of history_data
JsonDump(requests) ==
    [i \in DOMAIN requests |-> JsonObject(requests[i])]

\* json.load of a number
JsonNumber(text) == CHOOSE n \in JsonNumbers : ToString(n) = text

\* line 110, json.load of one record of the document
JsonRecord(object) ==
    [uuid |-> JsonNumber(object.uuid),
     success |-> (object.success = "true"),
     latency_ms |-> JsonNumber(object.latency_ms)]

\* line 110, json.load of the "requests" list
JsonLoad(document) ==
    [i \in DOMAIN document |-> JsonRecord(document[i])]

\* lines 96-99: the file is opened for writing and the document is dumped
SaveWriteOk(r) ==
    /\ saver[r].pc = "write"
    /\ history_file' = [state |-> "ok", requests |-> JsonDump(saver[r].snapshot)]
    /\ saver' = [saver EXCEPT ![r].pc = "done", ![r].ok = TRUE]
    /\ UNCHANGED <<registryVars, queueVars, broker_stats, socket_client,
                   uuid4_count, now, req, poll, sess, resolveLogs, queueLogs,
                   chk, events, connect_log, observerVars, bcast, loader,
                   boot, lockVars>>

\* (bug variant: the error reaches the except clause of handle_request,
\* lines 369-373)
SaveWriteFail_Propagates(r) ==
    /\ saver[r].pc = "write"
    /\ \E opened \in BOOLEAN :
          history_file' = IF opened THEN [state |-> "corrupt", requests |-> << >>]
                          ELSE history_file
    /\ saver' = [saver EXCEPT ![r].pc = "done", ![r].ok = FALSE]
    /\ broker_stats' = [broker_stats EXCEPT !.requests_failed = @ + 1]
    /\ UNCHANGED <<registryVars, queueVars, socket_client,
                   uuid4_count, now, req, poll, sess, resolveLogs, queueLogs,
                   chk, events, connect_log, observerVars, bcast, loader,
                   boot, lockVars>>

\* lines 96-102: open() raises and the file is as it was, or json.dump
\* raises after open() truncated the file; the except clause logs the error
\* and save_history returns False to nobody (it is the thread's target)
SaveWriteFail(r) ==
    /\ saver[r].pc = "write"
    /\ \E opened \in BOOLEAN :
          history_file' = IF opened THEN [state |-> "corrupt", requests |-> << >>]
                          ELSE history_file
    /\ saver' = [saver EXCEPT ![r].pc = "done", ![r].ok = FALSE]
    /\ UNCHANGED <<registryVars, queueVars, broker_stats, socket_client,
                   uuid4_count, now, req, poll, sess, resolveLogs, queueLogs,
                   chk, events, connect_log, observerVars, bcast, loader,
                   boot, lockVars>>

save_history(r) ==
    \/ SaveSnapshot(r)
    \/ SaveWriteOk(r)
    \/ SaveWriteFail(r)

\* ---------------------------------------------------- load_history (105)
\* history files written by earlier runs: the "requests" list of a document
\* shorter than, as long as and longer than the buffer
DocumentLengths == {0, HistoryCapacity - 1, HistoryCapacity, HistoryCapacity + 1}

\* records of an earlier run carry uuids this run never issues
Document(n) == [i \in 1..n |-> [uuid |-> -i, success |-> TRUE, latency_ms |-> 0]]

\* line 113: broker_stats["recent_requests"].clear()
Cleared(buffer) == << >>

\* lines 107-116: the file exists and parses; under stats_lock the buffer is
\* cleared and every record of the file is appended in order (run at startup
\* and by /api/history/load)
load_history ==
    /\ stats_lock = Free
    /\ \E n \in DocumentLengths :
        broker_stats' = [broker_stats EXCEPT
                            !.recent_requests =
                                DequeExtend(Cleared(@), Document(n))]
    /\ UNCHANGED <<extraVars, registryVars, queueVars, socket_client, uuid4_count, now,
                   chk, events, connect_log, req, poll, sess, resolveLogs,
                   queueLogs>>

\* lines 113-115: clear(), then append every record of the file in order
LoadedBuffer(buffer, requests) == DequeExtend(Cleared(buffer), requests)

\* lines 107-110, no lock held: without a file the function returns False
\* (line 121); a file that does not parse makes json.load raise, which the
\* except clause logs (lines 119-121); otherwise history_data is the parsed
\* document
LoadRead ==
    /\ loader.pc = "idle"
    /\ loader' =
          IF history_file.state \in {"absent", "corrupt"}
          THEN [pc |-> "idle", history_data |-> << >>, result |-> "failed"]
          ELSE [pc |-> "replace",
                history_data |-> IF history_file.state = "ok"
                                 THEN JsonLoad(history_file.requests)
                                 ELSE << >>,
                result |-> history_file.state]
    /\ UNCHANGED <<registryVars, queueVars, broker_stats, socket_client,
                   uuid4_count, now, req, poll, sess, resolveLogs, queueLogs,
                   chk, events, connect_log, observerVars, bcast, saver,
                   history_file, boot, lockVars>>

\* lines 112-121, under stats_lock: the buffer is cleared first (line 113);
\* then history_data.get("requests", []) is evaluated and iterated (line
\* 114), which raises when the document is not an object or holds no list
\* there, the buffer staying empty while the function returns False
LoadReplace ==
    /\ loader.pc = "replace"
    /\ stats_lock = Free
    /\ IF loader.result = "ok"
       THEN /\ broker_stats' = [broker_stats EXCEPT !.recent_requests =
                                   LoadedBuffer(@, loader.history_data)]
            /\ loader' = [loader EXCEPT !.pc = "idle", !.result = "loaded"]
       ELSE /\ broker_stats' = [broker_stats EXCEPT !.recent_requests =
                                   Cleared(@)]
            /\ loader' = [loader EXCEPT !.pc = "idle", !.result = "failed"]
    /\ UNCHANGED <<registryVars, queueVars, socket_client,
                   uuid4_count, now, req, poll, sess, resolveLogs, queueLogs,
                   chk, events, connect_log, observerVars, bcast, saver,
                   history_file, boot, lockVars>>

\* POST /api/history/load (lines 495-503) calls load_history
api_history_load ==
    \/ LoadRead
    \/ LoadReplace

\* HISTORY_FILE is a file beside broker.py that outlives the process: it is
\* replaced from outside by a JSON document that is not an object with a
\* list under "requests" (such as [] or {"requests": null})
OtherDocument ==
    /\ history_file.state # "other"
    /\ history_file' = [state |-> "other", requests |-> << >>]
    /\ UNCHANGED <<registryVars, queueVars, broker_stats, socket_client,
                   uuid4_count, now, req, poll, sess, resolveLogs, queueLogs,
                   chk, events, connect_log, observerVars, bcast, saver,
                   loader, boot, lockVars>>

\* ------------------------------------------------- the five locks (50-77)
\* A thread followed through its lock operations only: thread[t] is the
\* sequence of "with" statements the handler it runs has still to enter and
\* leave, in program order.
Locks == {"pending_requests_lock", "request_queue_lock", "ws_clients_lock",
          "stats_lock", "socket_client_lock"}

Th(t) == <<"thread", t>>

LockOwner(lock) ==
    CASE lock = "pending_requests_lock" -> pending_requests_lock
      [] lock = "request_queue_lock" -> request_queue_lock
      [] lock = "ws_clients_lock" -> ws_clients_lock
      [] lock = "stats_lock" -> stats_lock
      [] lock = "socket_client_lock" -> socket_client_lock

SetLockOwner(lock, owner) ==
    /\ pending_requests_lock' =
          IF lock = "pending_requests_lock" THEN owner ELSE pending_requests_lock
    /\ request_queue_lock' =
          IF lock = "request_queue_lock" THEN owner ELSE request_queue_lock
    /\ ws_clients_lock' =
          IF lock = "ws_clients_lock" THEN owner ELSE ws_clients_lock
    /\ stats_lock' = IF lock = "stats_lock" THEN owner ELSE stats_lock
    /\ socket_client_lock' =
          IF lock = "socket_client_lock" THEN owner ELSE socket_client_lock

\* "with lock:" is entered (Lock.acquire blocks until the lock is free) and
\* left (Lock.release)
Enter(lock) == [op |-> "enter", lock |-> lock]
Exit(lock) == [op |-> "exit", lock |-> lock]

\* "with lock:" around statements that take no lock
With(lock) == <<Enter(lock), Exit(lock)>>

\* "with lock:" around statements that take the locks of inner
Nested(lock, inner) == <<Enter(lock)>> \o inner \o <<Exit(lock)>>

\* every script of the first set followed by every script of the second
Then(first, second) == {a \o b : a \in first, b \in second}

\* broker_log, lines 144-145 (the broadcast of the entry runs in a thread of
\* its own, lines 159-165)
LogLocks == {With("stats_lock")}

\* broadcast_ws: lines 176-177, then lines 190-194 (a send failed; when none
\* did the second block is not entered)
BroadcastLocks ==
    {With("ws_clients_lock") \o With("ws_clients_lock")}

\* update_lr_connection_status, line 202, and lines 219-223 after a change
StatusLocks ==
    {With("stats_lock")} \cup
    Then({With("stats_lock")}, Then(LogLocks, BroadcastLocks))

\* handle_request: lines 244, 249, 258, 263, 267, 279, then the timeout path
\* (291, 309, 323) or the success path (333, 351, 354); lines 370-371 when
\* the body is rejected at line 242
RequestLocks ==
    Then(Then(LogLocks,
              {With("pending_requests_lock") \o With("request_queue_lock")
                 \o With("stats_lock")}),
         Then(BroadcastLocks,
              Then({With("pending_requests_lock") \o With("stats_lock")},
                   Then(BroadcastLocks, LogLocks) \cup
                   Then(LogLocks, BroadcastLocks))))
    \cup Then(LogLocks, {With("stats_lock")})

\* handle_poll: line 384, lines 392-393 when the flag went up, line 402
PollLocks ==
    Then({With("stats_lock")},
         Then({<< >>} \cup Then(LogLocks, BroadcastLocks),
              {With("request_queue_lock")}))

\* (bug variant: the log entry is written first and the registry is looked
\* up while stats_lock is held)
ResolveLocks_StatsOutermost ==
    {Nested("stats_lock", With("pending_requests_lock"))}

\* lines 428-436 and 741-747: broker_log is called inside
\* "with pending_requests_lock:"
ResolveLocks ==
    {Nested("pending_requests_lock", log) : log \in LogLocks}

\* handle_response: line 425 without an id, else lines 428-436
ResponseLocks == LogLocks \cup ResolveLocks

\* handle_socket_message: lines 741-747, or line 749 without an id
SocketMessageLocks == ResolveLocks \cup LogLocks

\* handle_socket_client: lines 651, 653, 658 (666-667 when the flag went
\* up), one round of the loop (a message or none, line 698, lines 702-718
\* with broker_log inside "with request_queue_lock:" when an entry was
\* popped), then the finally clause (724, 732)
SocketLocks ==
    Then(Then(LogLocks, {With("socket_client_lock") \o With("stats_lock")}),
         Then({<< >>} \cup SocketMessageLocks,
              Then({With("stats_lock")},
                   Then({With("request_queue_lock")} \cup
                          {Nested("request_queue_lock", log) : log \in LogLocks},
                        Then({With("socket_client_lock")}, LogLocks)))))

\* websocket: lines 601, 604, 607, 608 (the initial status is sent inside
\* "with stats_lock:"), then the finally clause (630, 633)
WebsocketLocks ==
    Then(Then({With("ws_clients_lock")}, LogLocks),
         Then({With("stats_lock") \o With("stats_lock")},
              Then({With("ws_clients_lock")}, LogLocks)))

\* save_history (line 90), load_history (line 112) and the /api endpoints
\* that read broker_stats (lines 452, 474, 481, 500, 509, 526, 545, 559),
\* the status ones after update_lr_connection_status (450, 557)
ApiLocks ==
    {With("stats_lock"), With("stats_lock") \o With("stats_lock")}
    \cup Then(StatusLocks, {With("stats_lock")})

\* what a thread of the broker runs
LockScripts ==
    RequestLocks \cup PollLocks \cup ResponseLocks \cup SocketLocks
    \cup WebsocketLocks \cup StatusLocks \cup BroadcastLocks \cup ApiLocks

\* everything but the locks
dataVars == <<pending_requests, request_queue, request_queue_event,
              broker_stats, socket_client, uuid4_count, now, req, poll, sess,
              resolveLogs, queueLogs, chk, events, connect_log, ws_clients,
              ws_state, ws, inbox, bcast, saveVars, boot>>

\* a thread is given a handler to run
ThreadStart(t) ==
    /\ thread[t] = << >>
    /\ \E script \in LockScripts : thread' = [thread EXCEPT ![t] = script]
    /\ UNCHANGED <<dataVars, pending_requests_lock, request_queue_lock,
                   ws_clients_lock, stats_lock, socket_client_lock>>

\* the thread reaches a "with lock:" and the lock is free
ThreadEnter(t) ==
    /\ thread[t] # << >>
    /\ Head(thread[t]).op = "enter"
    /\ LockOwner(Head(thread[t]).lock) = Free
    /\ SetLockOwner(Head(thread[t]).lock, Th(t))
    /\ thread' = [thread EXCEPT ![t] = Tail(@)]
    /\ UNCHANGED dataVars

\* the thread leaves the "with" block
ThreadExit(t) ==
    /\ thread[t] # << >>
    /\ Head(thread[t]).op = "exit"
    /\ SetLockOwner(Head(thread[t]).lock, Free)
    /\ thread' = [thread EXCEPT ![t] = Tail(@)]
    /\ UNCHANGED dataVars

\* ------------------------------------------- run_broker, start_broker.py
\* the ways the broker is started: "python broker.py" (run_broker, line
\* 1442) and "python start_broker.py" (start_broker.py lines 12-23)
Entries == {"run_broker", "start_broker"}

\* the process has imported broker.py and nothing else has run
Started(entry) == [entry |-> entry, pc |-> "start", load_attempted |-> FALSE,
                   listening |-> FALSE]

\* broker.py line 1415: load_history() tries to read HISTORY_FILE; when the
\* file exists and parses the buffer is replaced (lines 112-115), otherwise
\* it keeps its value.  start_broker.py has no such statement.
BootLoad ==
    /\ boot.entry = "run_broker"
    /\ boot.pc = "start"
    /\ \/ UNCHANGED broker_stats
       \/ \E n \in DocumentLengths :
             broker_stats' = [broker_stats EXCEPT
                                 !.recent_requests =
                                     DequeExtend(Cleared(@), Document(n))]
    /\ boot' = [boot EXCEPT !.pc = "socket", !.load_attempted = TRUE]
    /\ UNCHANGED <<registryVars, queueVars, socket_client, uuid4_count, now,
                   req, poll, sess, resolveLogs, queueLogs, chk, events,
                   connect_log, observerVars, bcast, saveVars, lockVars>>

\* broker.py lines 1429-1430 and start_broker.py lines 15-16: the thread of
\* run_socket_server is started and listens (lines 754-758)
BootSocketServer ==
    /\ \/ boot.pc = "socket"
       \/ boot.entry = "start_broker" /\ boot.pc = "start"
    /\ boot' = [boot EXCEPT !.pc = "http", !.listening = TRUE]
    /\ UNCHANGED <<registryVars, queueVars, broker_stats, socket_client,
                   uuid4_count, now, req, poll, sess, resolveLogs, queueLogs,
                   chk, events, connect_log, observerVars, bcast, saveVars, lockVars>>

\* broker.py line 1434 and start_broker.py line 21: app.run(...) serves
BootServe ==
    /\ boot.pc = "http"
    /\ boot' = [boot EXCEPT !.pc = "serving"]
    /\ UNCHANGED <<registryVars, queueVars, broker_stats, socket_client,
                   uuid4_count, now, req, poll, sess, resolveLogs, queueLogs,
                   chk, events, connect_log, observerVars, bcast, saveVars, lockVars>>

\* ------------------------------------------------------------------ clock
\* datetime.now() advances
Tick ==
    /\ now < MaxTime
    /\ now' = now + 1
    /\ UNCHANGED <<extraVars, registryVars, queueVars, broker_stats, socket_client,
                   uuid4_count, chk, events, connect_log, req, poll, sess,
                   resolveLogs, queueLogs>>

\* ------------------------------------------------------------------ Spec
Next ==
    \/ \E r \in Requests : handle_request(r)
    \/ \E k \in Pollers : handle_poll(k)
    \/ handle_response
    \/ \E s \in Sessions : handle_socket_client(s)
    \/ \E c \in Checkers : update_lr_connection_status(c)
    \/ \E o \in Observers : websocket(o) \/ WsBreak(o) \/ WsStall(o)
    \/ \E t \in Callers : broadcast_ws(t)
    \/ \E r \in Requests : save_history(r)
    \/ load_history
    \/ api_history_load
    \/ OtherDocument
    \/ Tick

Spec == Init /\ [][Next]_vars

\* producers, the /response endpoint and one socket connection
NextRegistry ==
    \/ \E r \in Requests : handle_request(r)
    \/ handle_response
    \/ \E s \in FirstSession : handle_socket_client(s)

SpecRegistry == Init /\ [][NextRegistry]_vars

\* producers, pollers and one socket connection that sends nothing
NextQueue ==
    \/ \E r \in Requests : handle_request(r)
    \/ \E k \in Pollers : handle_poll(k)
    \/ \E s \in FirstSession :
          \/ SocketConnect(s)
          \/ SocketStatus(s)
          \/ SocketAnnounce(s)
          \/ SocketClose(s)
          \/ SocketTouch(s)
          \/ SocketPop(s)
          \/ SocketSendOk(s)
          \/ SocketSendFail(s)
          \/ SocketFinally(s)

SpecQueue == Init /\ [][NextQueue]_vars

\* producers and the /response endpoint while the clock runs
NextStats ==
    \/ \E r \in Requests : handle_request(r)
    \/ handle_response
    \/ Tick

SpecStats == Init /\ [][NextStats]_vars

\* producers, the /response endpoint and history loads
NextHistory ==
    \/ \E r \in Requests : handle_request(r)
    \/ handle_response
    \/ load_history

SpecHistory == Init /\ [][NextHistory]_vars

\* the consumer's transports and the liveness checks while the clock runs;
\* no producer submits, so every queue inspection finds the queue empty
NextLiveness ==
    \/ \E k \in Pollers : PollBegin(k) \/ PollAnnounce(k) \/ PollPop(k)
    \/ \E s \in FirstSession :
          \/ SocketConnect(s)
          \/ SocketStatus(s)
          \/ SocketAnnounce(s)
          \/ SocketClose(s)
          \/ SocketTouch(s)
          \/ SocketPop(s)
          \/ SocketFinally(s)
    \/ \E c \in Checkers : update_lr_connection_status(c)
    \/ Tick

SpecLiveness == Init /\ [][NextLiveness]_vars

\* producers and every socket connection
NextSessions ==
    \/ \E r \in Requests : handle_request(r)
    \/ \E s \in Sessions :
          \/ SocketConnect(s)
          \/ SocketStatus(s)
          \/ SocketAnnounce(s)
          \/ SocketClose(s)
          \/ SocketTouch(s)
          \/ SocketPop(s)
          \/ SocketSendOk(s)
          \/ SocketSendFail(s)
          \/ SocketFinally(s)

SpecSessions == Init /\ [][NextSessions]_vars

\* one producer, one socket connection and the liveness checks while the
\* clock runs; nothing answers the producer
NextTeardown ==
    \/ \E r \in FirstRequest : handle_request(r)
    \/ \E s \in FirstSession :
          \/ SocketConnect(s)
          \/ SocketStatus(s)
          \/ SocketAnnounce(s)
          \/ SocketClose(s)
          \/ SocketTouch(s)
          \/ SocketPop(s)
          \/ SocketSendOk(s)
          \/ SocketSendFail(s)
          \/ SocketFinally(s)
    \/ \E c \in Checkers : update_lr_connection_status(c)
    \/ Tick

SpecTeardown == Init /\ [][NextTeardown]_vars

\* one producer, one poller and the dashboard connections with their sends
NextObservers ==
    \/ \E r \in FirstRequest : handle_request(r)
    \/ \E k \in FirstPoller : PollBegin(k) \/ PollAnnounce(k) \/ PollPop(k)
    \/ \E o \in Observers :
          \/ WsSubscribe(o)
          \/ WsCheck(o)
          \/ WsStatusAcquire(o)
          \/ WsStatusSend(o)
          \/ WsClose(o)
          \/ WsBreak(o)
          \/ WsStall(o)
    \/ \E t \in Callers : broadcast_ws(t)

SpecObservers == Init /\ [][NextObservers]_vars

\* the start of the process by either entry point, then one producer, one
\* poller and one socket connection, each served once its server runs
InitStartup == Globals /\ boot \in {Started(entry) : entry \in Entries}

NextStartup ==
    \/ BootLoad
    \/ BootSocketServer
    \/ BootServe
    \/ boot.pc = "serving" /\ \E r \in FirstRequest : handle_request(r)
    \/ boot.pc = "serving" /\ \E k \in FirstPoller : handle_poll(k)
    \/ boot.listening /\ \E s \in FirstSession :
          \/ SocketConnect(s)
          \/ SocketStatus(s)
          \/ SocketAnnounce(s)
          \/ SocketClose(s)
          \/ SocketTouch(s)
          \/ SocketPop(s)
          \/ SocketSendOk(s)
          \/ SocketSendFail(s)
          \/ SocketFinally(s)

SpecStartup == InitStartup /\ [][NextStartup]_vars

\* one producer, the pollers and one socket connection that sends nothing,
\* every thread being scheduled again and again: a handler that can take
\* its next step takes it, a blocking wait ends at its timeout, and a
\* socket write ends by returning or raising
SessionStep(s) ==
    \/ SocketConnect(s)
    \/ SocketStatus(s)
    \/ SocketAnnounce(s)
    \/ SocketClose(s)
    \/ SocketTouch(s)
    \/ SocketPop(s)
    \/ SocketSendOk(s)
    \/ SocketSendFail(s)
    \/ SocketFinally(s)

NextHandover ==
    \/ \E r \in FirstRequest : handle_request(r)
    \/ \E k \in Pollers : handle_poll(k)
    \/ \E s \in FirstSession : SessionStep(s)

FairHandover ==
    /\ \A r \in FirstRequest : WF_vars(handle_request(r))
    /\ \A k \in Pollers : WF_vars(handle_poll(k))
    /\ \A s \in FirstSession : WF_vars(SessionStep(s))

SpecHandover == Init /\ [][NextHandover]_vars /\ FairHandover

\* producers, the /response endpoint and the save threads the producers start
NextSave ==
    \/ \E r \in Requests : handle_request(r)
    \/ handle_response
    \/ \E r \in Requests : save_history(r)

SpecSave == Init /\ [][NextSave]_vars

\* producers, the /response endpoint, the save threads the producers start,
\* loads of the history file, and the file being replaced from outside
NextReload ==
    \/ \E r \in Requests : handle_request(r)
    \/ handle_response
    \/ \E r \in Requests : save_history(r)
    \/ api_history_load
    \/ OtherDocument

SpecReload == Init /\ [][NextReload]_vars

\* the threads of the broker, followed through their lock operations
NextLocks ==
    \E t \in Threads : ThreadStart(t) \/ ThreadEnter(t) \/ ThreadExit(t)

SpecLocks == Init /\ [][NextLocks]_vars

TypeOK ==
    /\ request_queue_event \in BOOLEAN
    /\ uuid4_count \in 0..MaxRequests
    /\ nresolve \in 0..MaxResolves
    /\ now \in 0..MaxTime
    /\ Len(broker_stats.recent_requests) <= HistoryCapacity

\* ======================================================================
\* Properties of the registry (SpecRegistry: producers, the /response
\* endpoint and the socket session)
\* ======================================================================
\* the request passed registration (it was "accepted by submit")
Accepted(r) == req[r].request_uuid # NoUuid

IssuedUuids == 1..uuid4_count

\* the payloads accepted by a resolve for uuid, on either transport
AcceptedFor(uuid) ==
    {resolve_log[i][2] : i \in {j \in DOMAIN resolve_log : resolve_log[j][1] = uuid}}

C2_NoCrossDelivery ==
    \A r \in Requests :
        \A i \in DOMAIN req[r].returned :
            req[r].returned[i].kind = "resolved" =>
                req[r].returned[i].payload \in AcceptedFor(req[r].request_uuid)

\* C2 witness: two requests were dequeued in one order, resolved in the
\* reverse order with different payloads, and each returned its own payload
C2_Witness ==
    \E r1, r2 \in Requests :
        /\ req[r1].pc = "done" /\ req[r2].pc = "done"
        /\ pop_log = <<req[r1].request_uuid, req[r2].request_uuid>>
        /\ resolve_log = << <<req[r2].request_uuid, "other">>,
                            <<req[r1].request_uuid, "pong">> >>
        /\ req[r1].returned[1].payload = "pong"
        /\ req[r2].returned[1].payload = "other"

\* C3 (as claimed): when a resolve was accepted for a submitter's uuid and
\* the submitter's wait was ended by that signal, the submitter returns an
\* accepted payload as a resolved outcome and is counted as a success.
C3_AcceptedResolveIsReturned ==
    \A r \in Requests :
        (req[r].pc = "done" /\ req[r].got_response
             /\ AcceptedFor(req[r].request_uuid) # {}) =>
            /\ req[r].returned[1].kind = "resolved"
            /\ req[r].returned[1].payload \in AcceptedFor(req[r].request_uuid)

\* C4 (as claimed): once a submitter's wait has ended by deadline expiry, a
\* resolve for its uuid is rejected as unknown.
C4_TimeoutPurgesAtomically ==
    \A r \in Requests :
        (req[r].pc = "pop" /\ ~req[r].got_response) =>
            \A body \in Payloads :
                ResponseStatus(pending_requests,
                               [uuid |-> req[r].request_uuid, body |-> body]) # 200

\* C5 (as claimed): at most one resolve is ever accepted for a uuid.
C5_AtMostOneAcceptedResolve ==
    \A i, j \in DOMAIN resolve_log :
        i # j => resolve_log[i][1] # resolve_log[j][1]

\* C6: a /response call answers 200 exactly when the uuid it carries is
\* pending at that moment, 404 when it carries a uuid that is not pending,
\* 400 when it carries none; a 404 or 400 call leaves the registry, the
\* queue, every request thread and the counters unchanged.
HttpResponseStep == nresolve' = nresolve + 1 /\ sess' = sess

Count(seq, x) == Cardinality({i \in DOMAIN seq : seq[i] = x})

InSeq(seq, x) == \E i \in DOMAIN seq : seq[i] = x

\* the handlers that have taken uuid off the queue and not yet finished
\* handing it over
Holders(uuid) ==
    {<<"poll", k>> : k \in {j \in Pollers : poll[j].pc = "respond"
                                             /\ poll[j].request_data = uuid}}
    \cup {Me(s) : s \in {t \in Sessions : sess[t].pc = "send"
                                           /\ sess[t].request_data = uuid}}

\* the consumers uuid was handed to
Receivers(uuid) == {h[2] : h \in {g \in handed : g[1] = uuid}}

\* C7: when a was pushed before b and neither was re-queued, b is dequeued
\* only after a, whichever transport dequeues each.
C7_Fifo ==
    \A i, j \in DOMAIN push_log :
        (/\ i < j
         /\ ~InSeq(requeued, push_log[i])
         /\ ~InSeq(requeued, push_log[j])
         /\ InSeq(pop_log, push_log[j])) =>
            /\ InSeq(pop_log, push_log[i])
            /\ \A pa, pb \in DOMAIN pop_log :
                   (pop_log[pa] = push_log[i] /\ pop_log[pb] = push_log[j])
                       => pa < pb

\* C7 witness: two entries were dequeued, the first by a poll call and the
\* second by the socket session, and nothing was re-queued
C7_Witness ==
    /\ Len(pop_log) = 2
    /\ requeued = << >>
    /\ \E k \in Pollers, s \in Sessions :
          /\ <<pop_log[1], <<"poll", k>> >> \in handed
          /\ <<pop_log[2], Me(s)>> \in handed

\* C8: an entry is never in two places: in the queue, taken by a handler,
\* handed to a consumer; it is dequeued at most once per enqueue.
C8_AtMostOneConsumer ==
    \A uuid \in IssuedUuids :
        /\ Cardinality(Holders(uuid)) + Count(request_queue, uuid)
               + Cardinality(Receivers(uuid))
               + (IF uuid \in lost THEN 1 ELSE 0) <= 1
        /\ Count(pop_log, uuid) <= Count(push_log, uuid) + Count(requeued, uuid)

\* C8 witness: one entry was pushed, the socket session has taken it, and a
\* poll call that is waiting to pop will find the queue empty
C8_Witness ==
    /\ Len(push_log) = 1
    /\ request_queue = << >>
    /\ \E k \in Pollers, s \in Sessions :
          /\ sess[s].pc = "send"
          /\ poll[k].pc = "wait"

\* C9: a failed socket write happens on the queue the dequeue left (nothing
\* was pushed or popped in between), puts the entry back at the head, so
\* that the queue is the one before the dequeue, sets the wake signal, and
\* comes before the teardown of the session.
C9_RequeueRestoresQueue ==
    [][\A s \in Sessions :
          (sess[s].pc = "send" /\ sess'[s].pc = "finally") =>
              /\ request_queue = Tail(sess[s].queue_before)
              /\ request_queue' = sess[s].queue_before
              /\ Head(request_queue') = sess[s].request_data
              /\ request_queue_event'
              /\ socket_client' = socket_client]_vars

\* C9 witness: the write failed with a second entry queued behind; the
\* entry is back at the head and the session is about to be torn down
C9_Witness ==
    \E s \in Sessions :
        /\ sess[s].pc = "finally"
        /\ sess[s].cause = "write error"
        /\ Len(request_queue) = 2
        /\ Head(request_queue) = sess[s].request_data

\* C10 (as claimed): a pending request that was pushed is in the queue, with
\* a handler that is handing it over, or with a consumer.
C10_NoLostWork ==
    \A uuid \in DOMAIN pending_requests :
        InSeq(push_log, uuid) =>
            \/ InSeq(request_queue, uuid)
            \/ Holders(uuid) # {}
            \/ Receivers(uuid) # {}

\* ======================================================================
\* Properties of the statistics (SpecStats: producers and the /response
\* endpoint while the clock runs)
\* ======================================================================
Last(seq) == seq[Len(seq)]

\* the handler of r has returned
Done(r) == req[r].pc = "done"

\* what handle_request returned to r's submitter
Kind(r) == Last(req[r].returned).kind

\* requests_total was incremented for r (line 264)
Counted(r) ==
    Accepted(r) /\ req[r].pc \in {"wait", "pop", "finish", "complete", "done"}

\* positions of the history records carrying uuid
RecordsOf(uuid) ==
    {i \in 1..Len(broker_stats.recent_requests) :
        broker_stats.recent_requests[i].uuid = uuid}

\* in this step the handler of r records the outcome on the timeout path
TimeoutPath(r) ==
    /\ req[r].pc = "finish"
    /\ req'[r].pc \in {"complete", "done"}
    /\ IsTimeout(req[r].got_response, req[r].pending_data)

\* in this step the handler of r returns the 504 timeout error
TimeoutReturn(r) ==
    /\ req[r].pc \in {"finish", "complete"}
    /\ req'[r].pc = "done"
    /\ Last(req'[r].returned).kind = "timeout"

\* C11: when handle_request ends by the timeout path, the submitter gets the
\* 504 timeout error, requests_timeout grows by exactly 1, requests_success,
\* requests_failed, total_latency_ms and avg_latency_ms keep their values,
\* and the uuid is no longer in pending_requests.
C11_TimeoutFrame ==
    [][\A r \in Requests :
        /\ TimeoutReturn(r) =>
            /\ Last(req'[r].returned).code = 504
            /\ IsTimeout(req[r].got_response, req[r].pending_data)
            /\ req[r].request_uuid \notin DOMAIN pending_requests'
        /\ TimeoutPath(r) =>
            /\ broker_stats'.requests_timeout = broker_stats.requests_timeout + 1
            /\ broker_stats'.requests_success = broker_stats.requests_success
            /\ broker_stats'.requests_failed = broker_stats.requests_failed
            /\ broker_stats'.requests_total = broker_stats.requests_total
            /\ broker_stats'.total_latency_ms = broker_stats.total_latency_ms
            /\ broker_stats'.avg_latency_ms = broker_stats.avg_latency_ms
            /\ req[r].request_uuid \notin DOMAIN pending_requests'
      ]_vars

\* a request timed out after another one succeeded with a non-zero latency
C11_Witness ==
    /\ Len(broker_stats.recent_requests) = 2
    /\ broker_stats.recent_requests[1].success
    /\ broker_stats.recent_requests[1].latency_ms > 0
    /\ ~broker_stats.recent_requests[2].success
    /\ broker_stats.requests_timeout = 1
    /\ broker_stats.avg_latency_ms.num > 0

\* the resolve of r's request was accepted before its wait ended
ResolvedBeforeDeadline(r) == Done(r) /\ Accepted(r) /\ req[r].got_response

\* C12: every request that returns an outcome was counted once in
\* requests_total at submission, is counted once in exactly one of
\* requests_success and requests_timeout at completion and has exactly one
\* history record with its own uuid and its outcome; a request resolved
\* before the deadline is counted in requests_success, not requests_timeout.
C12_CountedOnce ==
    /\ broker_stats.requests_total = Cardinality({r \in Requests : Counted(r)})
    /\ broker_stats.requests_success + broker_stats.requests_timeout =
           Cardinality({r \in Requests : Done(r) /\ Accepted(r)})
    /\ \A r \in Requests :
          Accepted(r) =>
            /\ Cardinality(RecordsOf(req[r].request_uuid)) =
                   IF Done(r) THEN 1 ELSE 0
            /\ \A i \in RecordsOf(req[r].request_uuid) :
                   broker_stats.recent_requests[i].success = (Kind(r) = "resolved")
    /\ broker_stats.requests_success >=
           Cardinality({r \in Requests : ResolvedBeforeDeadline(r)})

\* requests the submitter was answered with the response
Successful == {r \in Requests : Done(r) /\ Accepted(r) /\ Kind(r) = "resolved"}

RECURSIVE SumLatency(_)
SumLatency(rs) ==
    IF rs = {} THEN 0
    ELSE LET r == CHOOSE x \in rs : TRUE
         IN  req[r].latency_ms + SumLatency(rs \ {r})

\* C13: avg_latency_ms is the sum of the latencies of the successful
\* requests divided by their number (0 before the first success), whatever
\* the order in which concurrent handlers complete; requests that timed out
\* or failed do not enter it.
C13_RunningMean ==
    IF Successful = {}
    THEN broker_stats.avg_latency_ms.num = 0
    ELSE /\ broker_stats.avg_latency_ms.den > 0
         /\ broker_stats.avg_latency_ms.num * Cardinality(Successful) =
                SumLatency(Successful) * broker_stats.avg_latency_ms.den
         /\ broker_stats.requests_success = Cardinality(Successful)

\* two requests succeeded with different non-zero latencies
C13_Witness ==
    /\ Successful = Requests
    /\ \E r1, r2 \in Requests :
          /\ req[r1].latency_ms > 0
          /\ req[r2].latency_ms > req[r1].latency_ms
    /\ broker_stats.avg_latency_ms.den = 2

\* ======================================================================
\* Properties of the history buffer (SpecHistory: producers, the /response
\* endpoint and history loads)
\* ======================================================================
\* in this step the handler of r appends its history record
AppendsRecord(r) == req[r].pc = "finish" /\ req'[r].pc \in {"complete", "done"}

\* C14: recent_requests never holds more than HistoryCapacity records, after
\* appends by the success and the timeout path and after a load of a
\* document of any length; an append to a full buffer drops exactly the
\* oldest record and keeps the others in order.
C14_BoundedHistory ==
    /\ [](Len(broker_stats.recent_requests) <= HistoryCapacity)
    /\ [][\A r \in Requests :
            AppendsRecord(r) =>
              LET before == broker_stats.recent_requests
                  after == broker_stats'.recent_requests
              IN  /\ Last(after).uuid = req[r].request_uuid
                  /\ IF Len(before) = HistoryCapacity
                     THEN /\ Len(after) = HistoryCapacity
                          /\ \A i \in 1..(HistoryCapacity - 1) :
                                after[i] = before[i + 1]
                     ELSE /\ Len(after) = Len(before) + 1
                          /\ \A i \in 1..Len(before) : after[i] = before[i]
       ]_vars

\* a document longer than the buffer was loaded, then both requests appended
C14_Witness ==
    /\ Len(broker_stats.recent_requests) = HistoryCapacity
    /\ broker_stats.recent_requests[1].uuid = -4
    /\ broker_stats.recent_requests[HistoryCapacity - 1].uuid > 0
    /\ broker_stats.recent_requests[HistoryCapacity].uuid > 0
    /\ \E i \in {HistoryCapacity - 1, HistoryCapacity} :
          ~broker_stats.recent_requests[i].success

\* ======================================================================
\* Properties of the liveness monitor (SpecLiveness: pollers, one socket
\* connection and the liveness checks while the clock runs)
\* ======================================================================
\* threads that hold a status_update they have not broadcast yet
Announcing(p, s, c) ==
    Cardinality({k \in Pollers : p[k].pc = "announce"})
    + Cardinality({x \in Sessions : s[x].pc = "announce"})
    + Cardinality({x \in Checkers : c[x].pc = "announce"})

\* the status_update a thread in "announce" broadcasts
Held ==
    {StatusUpdate(TRUE) : k \in {x \in Pollers : poll[x].pc = "announce"}}
    \cup {StatusUpdate(TRUE) : x \in {y \in Sessions : sess[y].pc = "announce"}}
    \cup {StatusUpdate(chk[c].is_connected) :
             c \in {x \in Checkers : chk[x].pc = "announce"}}

\* C15: a liveness check, a poll call or a socket connect prepares a
\* status_update exactly when that step changed lightroom_connected, the
\* message carries the value the step stored, and nothing is broadcast
\* except one such prepared message at a time.
C15_EventOnlyOnChange ==
    [][/\ (broker_stats'.lightroom_connected # broker_stats.lightroom_connected)
            <=> (Announcing(poll', sess', chk') = Announcing(poll, sess, chk) + 1)
       /\ (broker_stats'.lightroom_connected = broker_stats.lightroom_connected)
            => (Announcing(poll', sess', chk') <= Announcing(poll, sess, chk))
       /\ \A c \in Checkers :
            (chk[c].pc = "idle" /\ chk'[c].pc = "announce")
              => chk'[c].is_connected = broker_stats'.lightroom_connected
       /\ (events' # events)
            => /\ Announcing(poll', sess', chk') = Announcing(poll, sess, chk) - 1
               /\ \E e \in Held : events' = Append(events, e)
               /\ UNCHANGED broker_stats
      ]_vars

\* the flag went up, down and up again, each change broadcast once, and a
\* poll and a check that changed nothing broadcast nothing
C15_Witness ==
    /\ events = <<StatusUpdate(TRUE), StatusUpdate(FALSE), StatusUpdate(TRUE)>>
    /\ Announcing(poll, sess, chk) = 0
    /\ \E c \in Checkers :
          chk[c].last_poll # NeverPolled /\ ~chk[c].status_changed
    /\ \A k \in Pollers : poll[k].status = 204

\* the consumer has been silent for at least the liveness timeout
Silent ==
    /\ broker_stats.lightroom_last_poll # NeverPolled
    /\ now - broker_stats.lightroom_last_poll >= LR_CONNECTION_TIMEOUT

\* in this step checker c runs the locked section of
\* update_lr_connection_status
CheckStep(c) == chk[c].pc = "idle" /\ chk'[c] # chk[c]

\* C16: once the consumer has been silent for the liveness timeout, the
\* first check turns lightroom_connected from True to False and prepares one
\* disconnected status_update, which it broadcasts once; every other check,
\* concurrent ones included, finds the flag False, leaves it False and
\* broadcasts nothing.
C16_DisconnectOnce ==
    [][\A c \in Checkers :
          /\ (CheckStep(c) /\ Silent) =>
                /\ ~broker_stats'.lightroom_connected
                /\ IF broker_stats.lightroom_connected
                   THEN /\ chk'[c].pc = "announce"
                        /\ ~chk'[c].is_connected
                        /\ \A d \in Checkers \ {c} : chk'[d] = chk[d]
                   ELSE chk'[c].pc = "idle"
                /\ events' = events
          /\ (chk[c].pc = "announce" /\ chk'[c].pc = "idle") =>
                events' = Append(events, StatusUpdate(chk[c].is_connected))
      ]_vars

\* both checkers ran after the consumer fell silent; one disconnected event
C16_Witness ==
    /\ Silent
    /\ ~broker_stats.lightroom_connected
    /\ events = <<StatusUpdate(TRUE), StatusUpdate(FALSE)>>
    /\ \A c \in Checkers :
          /\ chk[c].pc = "idle"
          /\ chk[c].last_poll = broker_stats.lightroom_last_poll
          /\ ~chk[c].is_connected
    /\ \E c, d \in Checkers : chk[c].status_changed /\ ~chk[d].status_changed

\* C33: the monitor starts disconnected; before any consumer activity a
\* liveness check leaves lightroom_connected False and emits nothing; right
\* after a check made when lightroom_last_poll is set, lightroom_connected
\* is True exactly when now - lightroom_last_poll is below the liveness
\* timeout.
C33_FlagFollowsLastActivity ==
    /\ ~broker_stats.lightroom_connected
    /\ broker_stats.lightroom_last_poll = NeverPolled
    /\ [](broker_stats.lightroom_last_poll = NeverPolled =>
            /\ ~broker_stats.lightroom_connected
            /\ events = << >>
            /\ \A c \in Checkers : chk[c].pc = "idle")
    /\ [][\A c \in Checkers :
            /\ (CheckStep(c) /\ broker_stats.lightroom_last_poll # NeverPolled) =>
                  /\ broker_stats'.lightroom_last_poll =
                         broker_stats.lightroom_last_poll
                  /\ broker_stats'.lightroom_connected <=>
                         (now - broker_stats.lightroom_last_poll
                             < LR_CONNECTION_TIMEOUT)
                  /\ chk'[c].is_connected = broker_stats'.lightroom_connected
            /\ (CheckStep(c) /\ broker_stats.lightroom_last_poll = NeverPolled) =>
                  /\ broker_stats' = broker_stats
                  /\ chk'[c].pc = "idle"
                  /\ events' = events
       ]_vars

\* one check found the consumer active and stored connected, a later one
\* found it silent and stored disconnected
C33_Witness ==
    /\ Silent
    /\ ~broker_stats.lightroom_connected
    /\ \E c, d \in Checkers :
          /\ chk[c].pc = "idle" /\ chk[d].pc = "idle"
          /\ chk[c].last_poll = broker_stats.lightroom_last_poll
          /\ chk[d].last_poll = broker_stats.lightroom_last_poll
          /\ chk[c].is_connected /\ ~chk[c].status_changed
          /\ ~chk[d].is_connected /\ chk[d].status_changed

\* in this step a poll call (line 384), a socket connect (line 657) or the
\* refresh of a running socket session (line 697) records activity
ActivityStep ==
    \/ \E k \in Pollers : poll[k].pc = "idle" /\ poll'[k].pc # "idle"
    \/ \E s \in Sessions : sess[s].pc = "status" /\ sess'[s].pc # "status"
    \/ \E s \in Sessions :
          sess[s].pc \in {"select", "touch"} /\ sess'[s].pc = "queue"

\* C17: every consumer activity (poll call, socket connect, refresh by a
\* running socket session) sets lightroom_last_poll to the current time and
\* leaves lightroom_connected True, and if it was False the same step
\* prepares the status_update.
C17_ActivityConnects ==
    [][ActivityStep =>
          /\ broker_stats'.lightroom_last_poll = now
          /\ broker_stats'.lightroom_connected
          /\ ~broker_stats.lightroom_connected =>
                Announcing(poll', sess', chk') = Announcing(poll, sess, chk) + 1
      ]_vars

\* ======================================================================
\* Properties of the socket sessions (SpecSessions: producers and every
\* socket connection)
\* ======================================================================
\* the session passed line 654 and has not reached its finally clause
Running(s) ==
    sess[s].pc \in {"status", "announce", "select", "touch", "queue", "send"}

\* C18: while the connection that assigned socket_client last is running,
\* socket_client designates it, and the teardown of a session that
\* socket_client does not designate leaves socket_client alone.
C18_ReferenceFollowsNewest ==
    /\ []((connect_log # << >> /\ Running(Last(connect_log)))
              => socket_client = Last(connect_log))
    /\ [][\A s \in Sessions :
            (sess[s].pc = "finally" /\ sess'[s].pc = "closed"
                 /\ socket_client # s)
              => socket_client' = socket_client
       ]_vars

\* C19: once a newer connection is accepted, only that session takes entries
\* from request_queue and writes them.
C19_OnlyNewestDraws ==
    [][\A s \in Sessions :
          (sess[s].pc = "queue" /\ sess'[s].pc = "send")
            => (s = Last(connect_log) /\ s = socket_client)
      ]_vars

\* ======================================================================
\* Properties of the session teardown (SpecTeardown: a producer, one socket
\* connection and the liveness checks while the clock runs)
\* ======================================================================
\* the session left its loop (break or exception)
Ended(s) == sess[s].pc \in {"finally", "closed"}

\* C20: every end of a socket session (peer close, read error, write error)
\* goes through the finally clause, after which socket_client does not
\* designate the session and the connection is closed; an ended session no
\* longer refreshes lightroom_last_poll; and a liveness check made when the
\* last activity is at least the liveness timeout old stores and reports
\* disconnected.
C20_TeardownThenDisconnected ==
    /\ [](\A s \in Sessions :
            /\ sess[s].cause # None => Ended(s)
            /\ Ended(s) => sess[s].cause # None
            /\ sess[s].pc = "closed" => socket_client # s)
    /\ [][/\ \A s \in Sessions :
               /\ sess[s].pc = "finally" => sess'[s].pc \in {"finally", "closed"}
               /\ sess[s].pc = "closed" => sess'[s] = sess[s]
          /\ (broker_stats'.lightroom_last_poll # broker_stats.lightroom_last_poll)
               => \E s \in Sessions : ~Ended(s) /\ sess'[s] # sess[s]
          /\ \A c \in Checkers :
               (CheckStep(c) /\ Silent) =>
                  /\ ~broker_stats'.lightroom_connected
                  /\ ~chk'[c].is_connected
                  /\ chk'[c].last_poll = broker_stats.lightroom_last_poll
       ]_vars

\* the session ended on a write error, the entry is back in the queue, and
\* a check made after the timeout reported disconnected
C20_Witness ==
    /\ \E s \in Sessions :
          /\ sess[s].pc = "closed"
          /\ sess[s].cause = "write error"
    /\ socket_client = NoClient
    /\ request_queue # << >>
    /\ Silent
    /\ ~broker_stats.lightroom_connected
    /\ events = <<StatusUpdate(TRUE), StatusUpdate(FALSE)>>

\* ======================================================================
\* Properties of the socket stream (SpecRegistry: producers, the /response
\* endpoint and the socket session)
\* ======================================================================
\* in this step session s reads a frame that holds no JSON object
ReadsMalformed(s) ==
    sess[s].pc = "select" /\ sess'[s].frame.kind \in MalformedKinds

\* in this step session s reads a frame that holds a JSON object
ReadsMessage(s) ==
    sess[s].pc = "select" /\ sess'[s].frame.kind = "object"

\* C21: a frame of the socket stream that cannot be parsed into a message
\* (invalid JSON, bytes that are not UTF-8, a JSON value that is not an
\* object) is dropped: the session goes on with its loop, and the registry
\* and the queue keep their values.
C21_MalformedFrameDropped ==
    [][\A s \in Sessions :
          ReadsMalformed(s) =>
            /\ sess'[s].pc = "touch"
            /\ UNCHANGED <<pending_requests, request_queue>>
      ]_vars

Elems(seq) == {seq[j] : j \in 1..Len(seq)}

\* in this step the broadcast_ws call of thread t returns
BroadcastReturns(t) == Broadcasting(t) /\ ~Broadcasting(t)'

\* the observer the broadcast_ws call of thread t sends to next
Target(t) == bcast[t].snapshot[bcast[t].i]

\* C23: in a broadcast a send that raises puts exactly that observer on the
\* dead list and the loop goes on with the next observer of the snapshot;
\* when the sends are over every observer of the snapshot was either sent
\* the message or is on the dead list, the observers removed from ws_clients
\* are exactly the dead ones, and the call returns to its caller, which
\* returns its outcome.
C23_FailedSendRemovesOnlyThatObserver ==
    /\ [](\A t \in Callers :
            /\ Elems(bcast[t].dead) \cap bcast[t].sent = {}
            /\ \A o \in bcast[t].sent : bcast[t].message \in inbox[o]
            /\ bcast[t].stage = "remove" =>
                  Elems(bcast[t].dead) \cup bcast[t].sent
                      = Elems(bcast[t].snapshot))
    /\ [][\A t \in Callers :
            /\ (bcast[t].stage = "send" /\ bcast'[t] # bcast[t]) =>
                  /\ ws_clients' = ws_clients
                  /\ ws_state[Target(t)] = "broken" =>
                        /\ inbox' = inbox
                        /\ bcast[t].i < Len(bcast[t].snapshot) =>
                              /\ bcast'[t].stage = "send"
                              /\ bcast'[t].i = bcast[t].i + 1
                              /\ bcast'[t].dead = Append(bcast[t].dead, Target(t))
                  /\ ws_state[Target(t)] = "open" =>
                        /\ bcast[t].message \in inbox'[Target(t)]
                        /\ BroadcastReturns(t) =>
                              bcast[t].sent \cup {Target(t)}
                                  = Elems(bcast[t].snapshot)
            /\ (bcast[t].stage = "remove" /\ bcast'[t] # bcast[t]) =>
                  /\ BroadcastReturns(t)
                  /\ Elems(ws_clients') = Elems(ws_clients) \ Elems(bcast[t].dead)
                  /\ Len(ws_clients') = Cardinality(Elems(ws_clients'))
            /\ (BroadcastReturns(t) /\ t[1] = "req" /\ req[t[2]].pc = "complete") =>
                  /\ req'[t[2]].pc = "done"
                  /\ Kind(t[2])' \in {"resolved", "timeout"}
      ]_vars

\* C23 witness: a broadcast has sent its message to one observer while the
\* send to the other one raised, and is about to unregister the dead one;
\* both are still registered
C23_Witness ==
    \E t \in Callers, o1, o2 \in Observers :
        /\ bcast[t].stage = "remove"
        /\ o1 \in bcast[t].sent
        /\ o2 \in Elems(bcast[t].dead)
        /\ {o1, o2} \subseteq Elems(ws_clients)

\* C24: a thread of the producer or consumer path that holds no lock and
\* waits for none can always take its next step, whatever the observers'
\* connections do: a handle_request past registration and a handle_poll never
\* wait for a ws.send to return, and a broadcast that has begun can always
\* go on to the next observer.
C24_BroadcastNeverBlocks ==
    (stats_lock = Free /\ request_queue_lock = Free) =>
        /\ \A r \in Requests :
              (Accepted(r) /\ ~Done(r)) =>
                  ENABLED (handle_request(r) \/ broadcast_ws(<<"req", r>>))
        /\ \A k \in Pollers :
              poll[k].pc \in {"announce", "wait"} =>
                  ENABLED (handle_poll(k) \/ broadcast_ws(<<"poll", k>>))

\* C25: no thread is inside ws.send while it holds stats_lock or
\* request_queue_lock (the registry lock is never held across a step): the
\* sends of broadcast_ws and the initial status send of websocket().
C25_NoSendUnderHotPathLock ==
    /\ \A t \in Callers :
          Broadcasting(t) => (stats_lock # t /\ request_queue_lock # t)
    /\ \A o \in Observers :
          ws[o].pc = "send" =>
              (stats_lock # <<"ws", o>> /\ request_queue_lock # <<"ws", o>>)

\* ======================================================================
\* Properties of the correlation ids (SpecRegistry)
\* ======================================================================
\* the requests whose handler generated uuid
OwnersOf(uuid) == {r \in Requests : req[r].request_uuid = uuid}

\* in this step the handler of r generates its uuid and registers the entry
Registers(r) == req[r].pc = "start" /\ req'[r].pc = "enqueue"

\* C26: the "_broker_uuid" carried by a request is the uuid its handler
\* generated, whatever id the posted body held; every key of the registry and
\* every entry of the queue is the uuid of exactly one request; and the uuid
\* generated at a registration is none that was generated, registered, queued
\* or completed before.
C26_FreshServerUuid ==
    /\ [](/\ \A r \in Requests :
               Accepted(r) =>
                 /\ req[r].request_data = req[r].request_uuid
                 /\ req[r].request_uuid \in IssuedUuids
                 /\ OwnersOf(req[r].request_uuid) = {r}
          /\ \A u \in DOMAIN pending_requests : Cardinality(OwnersOf(u)) = 1
          /\ \A i \in 1..Len(request_queue) :
               Cardinality(OwnersOf(request_queue[i])) = 1)
    /\ [][\A r \in Requests :
            Registers(r) =>
              /\ req'[r].request_uuid \notin IssuedUuids
              /\ req'[r].request_uuid \notin DOMAIN pending_requests
              /\ \A q \in Requests : req[q].request_uuid # req'[r].request_uuid
              /\ \A i \in 1..Len(push_log) : push_log[i] # req'[r].request_uuid
              /\ \A i \in 1..Len(broker_stats.recent_requests) :
                    broker_stats.recent_requests[i].uuid # req'[r].request_uuid
              /\ DOMAIN pending_requests' =
                    DOMAIN pending_requests \cup {req'[r].request_uuid}
      ]_vars

\* C26 witness: a request is registered and queued under its own uuid after
\* the other request has completed and its entry was purged
C26_Witness ==
    \E r1, r2 \in Requests :
        /\ Accepted(r1) /\ req[r1].pc = "done"
        /\ req[r2].pc = "count"
        /\ req[r2].request_uuid > req[r1].request_uuid
        /\ DOMAIN pending_requests = {req[r2].request_uuid}
        /\ request_queue = <<req[r1].request_uuid, req[r2].request_uuid>>

\* ======================================================================
\* Properties of the history file (SpecSave: producers, the /response
\* endpoint and the save threads)
\* ======================================================================
\* in this step the save thread started for r takes a step
SaveStep(r) == saver'[r] # saver[r] /\ saver[r].pc \in {"snapshot", "write"}

\* in this step the save thread started for r ends with an error
SaveFails(r) == SaveStep(r) /\ saver'[r].pc = "done" /\ ~saver'[r].ok

\* C27: a save that fails changes nothing but the file: the registry, the
\* queue, the counters, the history buffer and every handler's locals and
\* returned outcome are as they are after a save that succeeds, i.e. untouched;
\* and the outcome a handler returns is the one its wait decided, whether its
\* save thread failed, succeeded or has not run.
C27_SaveFailureContained ==
    /\ [][\A r \in Requests :
            SaveStep(r) =>
              UNCHANGED <<pending_requests, request_queue, request_queue_event,
                          request_queue_lock, broker_stats, req>>
       ]_vars
    /\ [](\A r \in Requests :
            (Done(r) /\ Accepted(r)) =>
              /\ req[r].returned =
                    <<Outcome(req[r].got_response, req[r].pending_data)>>
              /\ saver[r].pc # "idle")
    /\ [](broker_stats.requests_failed =
              Cardinality({r \in Requests :
                  Done(r) /\ Last(req[r].returned).kind = "failed"}))

\* C27 witness: the save of a resolved request failed after truncating the
\* file, and the request has returned its response and is in the buffer
C27_Witness ==
    \E r \in Requests :
        /\ Done(r) /\ Kind(r) = "resolved"
        /\ saver[r].pc = "done" /\ ~saver[r].ok
        /\ history_file.state = "corrupt"
        /\ RecordsOf(req[r].request_uuid) # {}
        /\ broker_stats.requests_success = 1
        /\ broker_stats.requests_failed = 0

\* ======================================================================
\* Properties of the start (SpecStartup: either entry point, then one
\* producer, one poller and one socket connection)
\* ======================================================================
\* a handler has run: a submit, a poll call or a socket connection was
\* accepted
Accepting ==
    \/ \E r \in Requests : req[r].pc # "start"
    \/ \E k \in Pollers : poll[k].pc # "idle"
    \/ \E s \in Sessions : sess[s].pc # "accept"

\* C28: whichever entry point started the broker, load_history was attempted
\* before the first submit, poll call or socket connection is accepted.
C28_LoadBeforeAccepting == Accepting => boot.load_attempted

\* ======================================================================
\* Properties of the hand-over between submit and resolve (SpecRegistry)
\* ======================================================================
\* a consumer has taken the queue entry carrying uuid
Dequeued(uuid) == \E i \in 1..Len(pop_log) : pop_log[i] = uuid

\* the handler of r has queued its entry and its wait has not ended
Waiting(r) == req[r].pc \in {"count", "wait"}

\* in this step a response carrying uuid is handled, on either transport
RespondsTo(uuid) ==
    \/ HttpResponseStep /\ last_response'.uuid = uuid
    \/ \E s \in Sessions : ReadsMessage(s) /\ sess'[s].frame.uuid = uuid

\* C29: the registry entry of a request exists from before its queue entry
\* is pushed until its wait has ended, every id ever pushed is the uuid of a
\* registered request, and a response for a dequeued entry whose submitter's
\* wait has not ended is accepted: /response answers 200, never 404.
C29_DequeuedIsRegistered ==
    /\ [](\A r \in Requests :
            req[r].pc \in {"enqueue", "count", "wait"} =>
                req[r].request_uuid \in DOMAIN pending_requests)
    /\ [](\A i \in 1..Len(push_log) :
            \E r \in Requests : Accepted(r) /\ req[r].request_uuid = push_log[i])
    /\ [][\A r \in Requests :
            (Waiting(r) /\ Dequeued(req[r].request_uuid)
                /\ RespondsTo(req[r].request_uuid)) =>
              /\ Len(resolve_log') = Len(resolve_log) + 1
              /\ Last(resolve_log')[1] = req[r].request_uuid
              /\ HttpResponseStep => last_response'.status = 200
       ]_vars

\* C29 witness: /response has answered 200 for an entry the socket session
\* dequeued, and the submitter is still in its wait
C29_Witness ==
    \E r \in Requests :
        /\ req[r].pc = "wait"
        /\ Dequeued(req[r].request_uuid)
        /\ last_response = [uuid |-> req[r].request_uuid, status |-> 200]

\* C30: the signal of an accepted resolve stays set until the submitter's
\* wait has ended, also when the resolve came before the handler reached the
\* wait; a wait that ends after a resolve was accepted returns True, and with
\* the signal set the wait can return at once.
C30_NoLostWakeup ==
    /\ [](\A r \in Requests :
            (Waiting(r) /\ AcceptedFor(req[r].request_uuid) # {}) =>
                /\ pending_requests[req[r].request_uuid].event
                /\ (req[r].pc = "wait" /\ ~Broadcasting(<<"req", r>>)) =>
                      ENABLED RequestWait(r))
    /\ [][\A r \in Requests :
            (req[r].pc = "wait" /\ req'[r].pc # "wait"
                /\ AcceptedFor(req[r].request_uuid) # {}) =>
              req'[r].got_response
       ]_vars

\* C30 witness: a resolve was accepted while the handler had queued its
\* entry and had not yet counted the request, which is before its wait
C30_Witness ==
    \E r \in Requests :
        /\ req[r].pc = "count"
        /\ AcceptedFor(req[r].request_uuid) # {}
        /\ pending_requests[req[r].request_uuid].event

\* ======================================================================
\* Properties of the queue lock (SpecQueue: producers, pollers and one
\* socket connection)
\* ======================================================================
\* session s is inside client_socket.sendall (line 711)
Writing(s) == sess[s].pc = "send"

\* C31: no thread writes to a consumer connection while it holds
\* request_queue_lock, so the enqueue step of a submit and the dequeue step
\* of a poll call never wait for a socket write.
C31_NoWriteUnderQueueLock ==
    \A s \in Sessions : Writing(s) => request_queue_lock # Me(s)

\* ======================================================================
\* Properties of the hand-over to consumers (SpecHandover: one producer,
\* the pollers and one socket connection, all scheduled fairly)
\* ======================================================================
\* the entry carrying uuid has reached a consumer
HandedOver(uuid) == \E h \in handed : h[1] = uuid

\* C32: every request pushed to request_queue is eventually handed to a
\* consumer, the pollers calling /poll again and again.
C32_EventuallyHanded ==
    \A uuid \in 1..MaxRequests :
        (uuid \in Elems(push_log)) ~> HandedOver(uuid)

\* ======================================================================
\* Properties of saving and loading the history (SpecReload: producers, the
\* /response endpoint, the save threads, loads of the history file)
\* ======================================================================
\* in this step load_history returns
LoadReturns == loader' # loader /\ loader'.pc = "idle"

\* the save threads that wrote their snapshot to the file
Saved == {r \in Requests : saver[r].pc = "done" /\ saver[r].ok}

\* C34: a load that succeeds replaces recent_requests by the records a save
\* wrote, in the same order (so a save followed by a load with no record in
\* between restores the buffer as it was), and a load that fails or finds no
\* file leaves recent_requests unchanged.
C34_LoadRestoresOrKeeps ==
    [][LoadReturns =>
          /\ loader'.result = "loaded" =>
                \E r \in Saved :
                    /\ broker_stats'.recent_requests = saver[r].snapshot
                    /\ (saver[r].snapshot = broker_stats.recent_requests
                          => UNCHANGED broker_stats)
          /\ loader'.result = "failed" => UNCHANGED broker_stats
      ]_vars

\* ======================================================================
\* Properties of the queue against the registry (SpecQueue)
\* ======================================================================
\* C35: every entry of request_queue carries the uuid of an entry of
\* pending_requests: once its submitter has timed out and purged the
\* registry entry, a request is not in the queue (and so is never handed to
\* a consumer afterwards).
C35_QueuedIsPending ==
    \A i \in 1..Len(request_queue) :
        request_queue[i] \in DOMAIN pending_requests

\* ======================================================================
\* Properties of the locks (SpecLocks: threads followed through their lock
\* operations)
\* ======================================================================
\* the locks thread t holds
Holding(t) == {lock \in Locks : LockOwner(lock) = Th(t)}

\* thread t is at a "with lock:" it has not entered
Wants(t) == thread[t] # << >> /\ Head(thread[t]).op = "enter"

\* thread t waits for a lock that thread u holds
WaitsFor(t, u) == Wants(t) /\ LockOwner(Head(thread[t]).lock) = Th(u)

\* C36: a thread that requests a lock while it holds one holds only
\* pending_requests_lock or only request_queue_lock and requests stats_lock
\* (stats_lock is innermost and nothing is requested while it is held), and
\* no set of threads is reachable in which each waits for a lock held by
\* another of the set.
C36_NoLockCycle ==
    /\ \A t \in Threads :
          (Wants(t) /\ Holding(t) # {}) =>
             /\ Head(thread[t]).lock = "stats_lock"
             /\ Holding(t) \in {{"pending_requests_lock"},
                                {"request_queue_lock"}}
    /\ \A waiting \in SUBSET Threads :
          waiting # {} =>
             \E t \in waiting : \A u \in waiting : ~WaitsFor(t, u)

\* one thread holds stats_lock while a thread inside "with
\* pending_requests_lock:" and a thread inside "with request_queue_lock:"
\* both wait for it
C36_Witness ==
    \E t, u, v \in Threads :
        /\ Holding(t) = {"pending_requests_lock"} /\ WaitsFor(t, v)
        /\ Holding(u) = {"request_queue_lock"} /\ WaitsFor(u, v)
        /\ Holding(v) = {"stats_lock"}

\* ======================================================================
\* Properties of the order of status events (SpecLiveness)
\* ======================================================================
\* C37: the status_update messages handed to broadcast_ws, which sends each
\* to every observer before it returns, alternate between connected and
\* disconnected, and once no thread holds a status_update it has not
\* broadcast the last one equals lightroom_connected.
C37_EventsFollowFlag ==
    /\ \A i \in 1..(Len(events) - 1) :
          events[i].connected # events[i + 1].connected
    /\ (Announcing(poll, sess, chk) = 0 /\ events # << >>) =>
          Last(events).connected = broker_stats.lightroom_connected

\* ======================================================================
\* Properties of the saved document (SpecSave)
\* ======================================================================
\* every save thread that was started has ended, and none failed
SavesOver ==
    /\ \E r \in Requests : saver[r].pc = "done"
    /\ \A r \in Requests : saver[r].pc \in {"idle", "done"} /\ saver[r].ok

\* C38: once every save thread started by a request has ended and none
\* failed, HISTORY_FILE holds the records of recent_requests, in order: the
\* save started for an earlier record does not overwrite the document of
\* the save started for a later one.
C38_DocumentIsBuffer ==
    SavesOver =>
        /\ history_file.state = "ok"
        /\ JsonLoad(history_file.requests) = broker_stats.recent_requests

\* C39: whenever request_queue_lock is free, request_queue_event is set
\* exactly when request_queue is not empty, after any interleaving of
\* append, popleft and appendleft.
C39_SignalIffNonEmpty ==
    request_queue_lock = Free =>
        (request_queue_event <=> request_queue # << >>)

\* an entry was popped, put back after a failed write and popped again,
\* which emptied the queue and cleared the signal
C39_Witness ==
    /\ request_queue_lock = Free
    /\ requeued # << >>
    /\ Len(pop_log) > Len(requeued)
    /\ request_queue = << >>
    /\ ~request_queue_event

\* ======================================================================
\* Properties of the counter sums (SpecStats)
\* ======================================================================
\* the handler of r has added 1 to requests_total (line 264) and has not
\* recorded an outcome yet
Unrecorded(r) == req[r].pc \in {"wait", "pop", "finish"}

\* C40: requests_success + requests_timeout + requests_failed never exceeds
\* requests_total; the difference is the number of submits counted in the
\* total that have not recorded an outcome, so with no submit in progress
\* the total equals the sum, also after rejected and failed submits.
C40_OutcomesWithinTotal ==
    /\ broker_stats.requests_success + broker_stats.requests_timeout
          + broker_stats.requests_failed <= broker_stats.requests_total
    /\ broker_stats.requests_total
          - (broker_stats.requests_success + broker_stats.requests_timeout
               + broker_stats.requests_failed)
          = Cardinality({r \in Requests : Unrecorded(r)})
====
